---- MODULE Spec2Model ----
(***************************************************************************)
(* Model of the IT-support reasoning engine (src/reasoning/engine.py with  *)
(* the rule provider src/knowledge/rules.py).                              *)
(*                                                                         *)
(* Python strings are TLA+ strings; every code point outside ASCII (icons, *)
(* arrows, bullets, dashes, the degree sign) is written as one "*", so     *)
(* lengths and slices count the same characters as Python does.            *)
(* Python dicts are records; dict.get(k, d) is Get(x, k, d).  Python None  *)
(* is the record None.  A score that Python holds as a float is held as a  *)
(* fraction <<num, den>> until round(.., 4) turns it into an integer       *)
(* number of ten-thousandths (1.0 is 10000).                               *)
(***************************************************************************)
EXTENDS Integers, Sequences, FiniteSets, TLC

VARIABLES
  facts,                \* the knowledge base handed to reason(), loaded once
  SYMPTOM_DEFINITIONS,  \* the module-level symptom registry (engine.py:12)
  question,             \* argument of the last call of reason()
  system_metrics,       \* argument of the last call of reason()
  result,               \* value returned by the last call (<<>> before one)
  trace,                \* values of the local variables of the last call
  repeated,             \* the last call had the arguments of the one before
  previous_result,      \* then: the value the call before returned
  score_call            \* the last direct call of a scoring function

vars == <<facts, SYMPTOM_DEFINITIONS, question, system_metrics, result, trace,
          repeated, previous_result, score_call>>

(***************************************************************************)
(* Python values                                                           *)
(***************************************************************************)
None == [None |-> TRUE]

IsNone(x) == "None" \in DOMAIN x

\* isinstance(x, dict): a value that is not a mapping is modelled as the
\* record NotADict
NotADict == [not_a_dict |-> TRUE]

isinstance_dict(x) == "not_a_dict" \notin DOMAIN x

Get(x, k, d) == IF k \in DOMAIN x THEN x[k] ELSE d

Min(a, b) == IF a <= b THEN a ELSE b

Max(a, b) == IF a >= b THEN a ELSE b

Range(s) == {s[i] : i \in DOMAIN s}

\* f itself: TLC evaluates a function expression [x \in S |-> e] anew at
\* every application, and once only when it is written Eager([x \in S |-> e])
Eager(f) == f @@ <<>>

\* the dict d after the assignment d[k] = v
SetItem(d, k, v) == (k :> v) @@ d

RECURSIVE SelectFrom(_, _, _)
SelectFrom(s, keep, i) ==
  IF i > Len(s) THEN <<>>
  ELSE (IF keep[i] THEN <<s[i]>> ELSE <<>>) \o SelectFrom(s, keep, i + 1)

\* [s[i] for i in range(len(s)) if keep[i]], keep a Boolean-valued sequence
\* aligned with s
SelectSeqBy(s, keep) == SelectFrom(Eager(s), Eager(keep), 1)

\* s[:n]
Take(s, n) == SubSeq(s, 1, Min(n, Len(s)))

(***************************************************************************)
(* Python str operations                                                   *)
(***************************************************************************)
UpperLetters == "ABCDEFGHIJKLMNOPQRSTUVWXYZ"

LowerLetters == "abcdefghijklmnopqrstuvwxyz"

Digits == "0123456789"

Chars(s) == {SubSeq(s, i, i) : i \in 1..Len(s)}

LowerOf ==
  [c \in Chars(UpperLetters) |->
     LET i == CHOOSE j \in 1..26 : SubSeq(UpperLetters, j, j) = c
     IN  SubSeq(LowerLetters, i, i)]

UpperOf ==
  [c \in Chars(LowerLetters) |->
     LET i == CHOOSE j \in 1..26 : SubSeq(LowerLetters, j, j) = c
     IN  SubSeq(UpperLetters, i, i)]

RECURSIVE MapChars(_, _)
\* the string s with every character c in DOMAIN f replaced by f[c]
MapChars(s, f) ==
  IF Len(s) = 0 THEN ""
  ELSE IF Len(s) = 1 THEN (IF s \in DOMAIN f THEN f[s] ELSE s)
  ELSE LET h == Len(s) \div 2
       IN  MapChars(SubSeq(s, 1, h), f) \o MapChars(SubSeq(s, h + 1, Len(s)), f)

\* str.lower()
lower(s) == MapChars(s, LowerOf)

\* str.upper()
upper(s) == MapChars(s, UpperOf)

\* p in s
Contains(s, p) ==
  \/ Len(p) = 0
  \/ \E i \in 1..(Len(s) - Len(p) + 1) : SubSeq(s, i, i + Len(p) - 1) = p

\* any(p in s for p in ps) for a sequence ps of strings
ContainsAny(s, ps) == \E k \in DOMAIN ps : Contains(s, ps[k])

Whitespace == {" ", "\n", "\t", "\r"}

RECURSIVE LStripIdx(_, _, _)
LStripIdx(s, cs, i) ==
  IF i <= Len(s) /\ SubSeq(s, i, i) \in cs THEN LStripIdx(s, cs, i + 1) ELSE i

RECURSIVE RStripIdx(_, _, _)
RStripIdx(s, cs, j) ==
  IF j >= 1 /\ SubSeq(s, j, j) \in cs THEN RStripIdx(s, cs, j - 1) ELSE j

\* str.strip(chars), cs the set of characters removed at both ends
strip_chars(s, cs) ==
  LET i == LStripIdx(s, cs, 1)
      j == RStripIdx(s, cs, Len(s))
  IN  IF i > j THEN "" ELSE SubSeq(s, i, j)

\* str.strip()
strip(s) == strip_chars(s, Whitespace)

RECURSIVE WordEnd(_, _)
\* the index of the last character of the word of s that contains s[i]
WordEnd(s, i) ==
  IF i < Len(s) /\ SubSeq(s, i + 1, i + 1) \notin Whitespace
  THEN WordEnd(s, i + 1) ELSE i

RECURSIVE SplitFrom(_, _)
SplitFrom(s, i) ==
  LET b == LStripIdx(s, Whitespace, i)
      e == WordEnd(s, b)
  IN  IF b > Len(s) THEN <<>> ELSE <<SubSeq(s, b, e)>> \o SplitFrom(s, e + 1)

\* str.split(): the maximal runs of non-whitespace characters, in order
split(s) == SplitFrom(s, 1)

\* set(s.split())
WordSet(s) == Range(split(s))

\* ' '.join(ws)
RECURSIVE join(_)
join(ws) ==
  IF ws = <<>> THEN ""
  ELSE IF Len(ws) = 1 THEN ws[1]
  ELSE ws[1] \o " " \o join(Tail(ws))

\* the characters the regular-expression class \w matches (ASCII part)
WordChars == Chars(LowerLetters) \cup Chars(UpperLetters) \cup Chars(Digits) \cup {"_"}

IsWordCharAt(s, i) == i >= 1 /\ i <= Len(s) /\ SubSeq(s, i, i) \in WordChars

\* the regular-expression assertion \b between s[i-1] and s[i]
WordBoundary(s, i) == IsWordCharAt(s, i - 1) # IsWordCharAt(s, i)

re_search_without_boundaries(p, s) == Contains(lower(s), p)

\* re.search(r'\b' + p + r'\b', s, re.IGNORECASE) for a literal lower-case p
re_search_word(p, s) ==
  LET t == lower(s)
  IN  \E i \in 1..(Len(t) - Len(p) + 1) :
        /\ SubSeq(t, i, i + Len(p) - 1) = p
        /\ WordBoundary(t, i)
        /\ WordBoundary(t, i + Len(p))

(***************************************************************************)
(* The rule/advice provider, src/knowledge/rules.py.  Every rule is a      *)
(* chain of "if any(word in question for word in [...])" groups; a table   *)
(* lists the trigger words and the lines each group appends.               *)
(***************************************************************************)
RECURSIVE FlattenSeq(_)
\* the concatenation of a sequence of sequences
FlattenSeq(ss) ==
  IF Len(ss) = 0 THEN <<>> ELSE Head(ss) \o FlattenSeq(Tail(ss))

\* the lines appended by the groups of a table whose trigger occurs in text
RuleAdvice(table, text) ==
  FlattenSeq(Eager([g \in DOMAIN table |->
                IF ContainsAny(text, table[g].words) THEN table[g].advice ELSE <<>>]))

\* the elements of s whose key (keys is aligned with s) was not seen before
KeepFirst(s, keys) ==
  LET ks == Eager(keys)
  IN  SelectSeqBy(s, [i \in DOMAIN s |-> \A j \in 1..(i - 1) : ks[j] # ks[i]])

hardware_issue_advice_table ==
  <<
  [ words |-> <<"overheat", "overheating", "temperature", "hot", "thermal", "cooling", "warm">>,
    advice |-> <<"* Check CPU/GPU temperatures using monitoring software like HWMonitor",
                 "* Clean dust from fans, heatsinks, and vents regularly",
                 "* Ensure proper case airflow and ventilation",
                 "* Consider reapplying thermal paste if temperatures remain high">> ],
  [ words |-> <<"fan", "noisy", "noise", "loud", "whirring", "grinding", "buzzing">>,
    advice |-> <<"* Identify which fan is making noise (CPU, GPU, case, PSU)",
                 "* Clean the noisy fan and check for obstructions",
                 "** Check fan speed settings in BIOS/UEFI">> ],
  [ words |-> <<"slow", "performance", "lag", "bottleneck", "sluggish", "speed">>,
    advice |-> <<"* Monitor resource usage in Task Manager (CPU, RAM, disk, GPU)",
                 "* Update drivers, especially graphics and chipset",
                 "* Consider SSD upgrade for significant speed improvement">> ],
  [ words |-> <<"power", "shutdown", "restart", "boot", "turn on", "won't start">>,
    advice |-> <<"* Check all power connections and cables",
                 "* Test with different power outlet and cable",
                 "* Verify power supply unit (PSU) health and capacity">> ],
  [ words |-> <<"ram", "memory", "bsod", "blue screen", "bluescreen", "crash">>,
    advice |-> <<"* Run Windows Memory Diagnostic or MemTest86",
                 "* Reseat RAM modules in their slots",
                 "* Check RAM compatibility and running at correct speeds">> ],
  [ words |-> <<"screen", "display", "monitor", "lines", "distorted", "flickering">>,
    advice |-> <<"** Check video cable connections and try different cables",
                 "* Update graphics drivers to latest version",
                 "** Test with different monitor or input source">> ],
  [ words |-> <<"burn", "burning", "smoke", "spark", "fire", "water", "spilled">>,
    advice |-> <<"* IMMEDIATELY shut down and unplug computer",
                 "* Do not attempt to use until professionally inspected",
                 "* For liquid spills: remove battery if possible, dry thoroughly">> ]
  >>

hardware_issue_advice(fact, metrics) ==
  RuleAdvice(hardware_issue_advice_table, lower(Get(fact, "question", "")))

software_issue_advice_table ==
  <<
  [ words |-> <<"install", "setup", "compatibility", "won't install", "installation">>,
    advice |-> <<"** Run installer as Administrator",
                 "* Temporarily disable antivirus during installation",
                 "* Check system requirements and compatibility">> ],
  [ words |-> <<"crash", "freeze", "not responding", "hang", "stopped working">>,
    advice |-> <<"* Update software to latest version",
                 "* Check for and install available Windows updates",
                 "* Run system file checker: sfc /scannow">> ],
  [ words |-> <<"virus", "malware", "infected", "ransomware", "trojan", "hacked">>,
    advice |-> <<"* Disconnect from internet immediately",
                 "** Run full scan with updated antivirus",
                 "* Boot in Safe Mode for thorough cleaning">> ],
  [ words |-> <<"update", "upgrade", "windows update", "failed update">>,
    advice |-> <<"* Run Windows Update Troubleshooter",
                 "* Clear update cache and restart update service",
                 "* Manually download updates from Microsoft Catalog">> ]
  >>

software_issue_advice(fact, metrics) ==
  RuleAdvice(software_issue_advice_table, lower(Get(fact, "question", "")))

networking_issue_advice_table ==
  <<
  [ words |-> <<"wifi", "wireless", "connection", "disconnect", "router">>,
    advice |-> <<"* Restart router and modem",
                 "* Update network adapter drivers",
                 "** Change WiFi channel to reduce interference">> ],
  [ words |-> <<"slow internet", "bandwidth", "download speed", "streaming", "speed">>,
    advice |-> <<"* Run speed test at different times of day",
                 "* Check for background downloads or updates",
                 "* Restart networking equipment">> ],
  [ words |-> <<"no internet", "can't connect", "dns", "proxy", "offline">>,
    advice |-> <<"* Flush DNS cache: ipconfig /flushdns",
                 "* Reset network settings to default",
                 "* Renew IP address: ipconfig /renew">> ]
  >>

networking_issue_advice(fact, metrics) ==
  RuleAdvice(networking_issue_advice_table, lower(Get(fact, "question", "")))

storage_issue_advice_table ==
  <<
  [ words |-> <<"disk full", "storage", "space", "cleanup", "low space">>,
    advice |-> <<"* Run Disk Cleanup utility",
                 "* Move large files to external storage or cloud",
                 "** Uninstall unused programs and games">> ],
  [ words |-> <<"hard drive", "hdd", "ssd", "clicking", "noise", "failing">>,
    advice |-> <<"* Backup important data immediately",
                 "* Run CHKDSK to check for disk errors",
                 "* Monitor drive health with SMART tools">> ],
  [ words |-> <<"recover", "deleted", "formatted", "lost data", "files gone">>,
    advice |-> <<"* Stop using the drive immediately",
                 "* Use data recovery software promptly",
                 "* Restore from backup if available">> ]
  >>

storage_issue_advice(fact, metrics) ==
  RuleAdvice(storage_issue_advice_table, lower(Get(fact, "question", "")))

gaming_issue_advice_table ==
  <<
  [ words |-> <<"fps", "frame rate", "lag", "stutter", "gaming performance">>,
    advice |-> <<"* Update graphics drivers to latest version",
                 "** Lower in-game graphics settings",
                 "* Close background applications while gaming">> ],
  [ words |-> <<"game crash", "won't launch", "directx", "opengl", "not starting">>,
    advice |-> <<"* Verify game file integrity through platform (Steam/Epic)",
                 "* Install latest DirectX and Visual C++ redistributables",
                 "** Add game to antivirus exceptions list">> ]
  >>

gaming_issue_advice(fact, metrics) ==
  RuleAdvice(gaming_issue_advice_table, lower(Get(fact, "question", "")))

\* an advice line without its leading icon: ' '.join(item.split()[1:])
content_core(item) ==
  LET w == split(item) IN IF w # <<>> THEN join(Tail(w)) ELSE item

execute_all_rules(fact, metrics) ==
  LET advice_list ==
        hardware_issue_advice(fact, metrics)
        \o software_issue_advice(fact, metrics)
        \o networking_issue_advice(fact, metrics)
        \o storage_issue_advice(fact, metrics)
        \o gaming_issue_advice(fact, metrics)
      unique_advice ==
        KeepFirst(advice_list,
                  [i \in DOMAIN advice_list |-> content_core(advice_list[i])])
  IN  Take(unique_advice, 8)

get_priority_level_table ==
  <<
  [ words |-> <<"fire", "smoke", "spark", "burn", "burning", "water", "spilled", "electrical", "hazard">>,
    level |-> "CRITICAL" ],
  [ words |-> <<"data loss", "backup", "recovery", "ransomware", "virus", "hacked", "compromised", "won't boot">>,
    level |-> "HIGH" ],
  [ words |-> <<"blue screen", "crash", "freeze", "not working", "error">>,
    level |-> "MEDIUM" ],
  [ words |-> <<"slow", "performance", "optimization", "cleanup", "maintenance">>,
    level |-> "LOW" ]
  >>

get_priority_level(fact, metrics) ==
  LET text == lower(Get(fact, "question", ""))
      t    == get_priority_level_table
      hit  == {g \in DOMAIN t : ContainsAny(text, t[g].words)}
  IN  IF hit = {} THEN "NORMAL"
      ELSE t[CHOOSE g \in hit : \A h \in hit : g <= h].level

generate_troubleshooting_steps_table ==
  <<
  [ words |-> <<"hardware", "component", "device", "peripheral", "usb", "display">>,
    advice |-> <<"4. * Check all physical connections",
                 "5. * Clean components and ensure proper ventilation",
                 "6. * Update device drivers and firmware">> ],
  [ words |-> <<"software", "program", "application", "game", "install", "crash">>,
    advice |-> <<"4. ** Run as Administrator",
                 "5. * Check antivirus and firewall settings",
                 "6. * Reinstall or repair the application">> ],
  [ words |-> <<"network", "wifi", "internet", "router", "connection">>,
    advice |-> <<"4. * Restart router and modem",
                 "5. * Update network adapter drivers",
                 "6. * Test with Ethernet cable if possible">> ]
  >>

generate_troubleshooting_steps(fact) ==
  LET text == lower(Get(fact, "question", ""))
      steps ==
        << "1. * Restart the computer and test again",
           "2. * Check for recent changes or updates",
           "3. * Look for specific error messages or codes" >>
        \o RuleAdvice(generate_troubleshooting_steps_table, text)
  IN  Take(steps, 6)

get_preventive_maintenance_advice_table ==
  <<
  [ words |-> <<"overheat", "fan", "noise", "dust", "clean">>,
    advice |-> <<"* Clean dust every 3-6 months",
                 "* Monitor temperatures regularly",
                 "* Ensure proper ventilation">> ],
  [ words |-> <<"slow", "crash", "update", "virus">>,
    advice |-> <<"* Keep system and drivers updated",
                 "* Run regular antivirus scans",
                 "* Clean temporary files weekly">> ],
  [ words |-> <<"backup", "recovery", "lost", "deleted">>,
    advice |-> <<"* Maintain regular backups",
                 "* Use cloud storage for important files",
                 "* Test backup restoration periodically">> ]
  >>

get_preventive_maintenance_advice(fact) ==
  RuleAdvice(get_preventive_maintenance_advice_table,
             lower(Get(fact, "question", "")))

(***************************************************************************)
(* The symptom registry, engine.py SYMPTOM_DEFINITIONS, in insertion       *)
(* order.  The field additional_check names the symptom's predicate.       *)
(***************************************************************************)
InitialSymptomDefinitions ==
  <<
  [ name |-> "random_shutdown",
    patterns |-> <<"shut down", "shutting down", "turns off", "powers off", "randomly off", "sudden shutdown", "shuts itself off", "random restart", "restarts randomly", "rebooting randomly", "shuts down while gaming", "turns off during game">>,
    expert_advice |->
      [ type |-> "expert_diagnosis",
        content |-> "Random shutdowns are almost always caused by:\n1. Overheating * CPU/GPU hits 95*105*C and system protects itself\n2. Failing power supply (common on 3+ year old PCs)\n3. Bad RAM or motherboard VRMs",
        category |-> "Power / Thermal",
        confidence |-> "high",
        priority |-> "HIGH",
        rule_advice |-> <<
             "Download HWMonitor or Core Temp * check temps under load",
             "Clean ALL dust from fans and heatsinks (90% of cases fixed here)",
             "Repaste CPU/GPU if system is older than 3 years",
             "Test with a known-good PSU if possible",
             "Run MemTest86 overnight (free)",
             "Check Event Viewer * Kernel-Power Event ID 41" >> ] ],

  [ name |-> "no_power",
    patterns |-> <<"won't turn on", "no power", "completely dead", "not powering on", "black screen no power", "no signs of life", "wont turn on", "laptop wont turn on">>,
    additional_check |-> "no_power",
    expert_advice |->
      [ type |-> "expert_diagnosis",
        content |-> "PC completely dead? Follow this exact order:",
        category |-> "Power Failure",
        confidence |-> "high",
        priority |-> "HIGH",
        rule_advice |-> <<
             "Check power cable & wall socket first",
             "Hold power button 30*60 seconds (drain flea power)",
             "Reseat RAM and CMOS battery",
             "Check front panel connectors",
             "Test with only motherboard + CPU + 1 RAM stick + PSU" >>,
        troubleshooting_steps |-> <<
             "1. Verify power cable and outlet work",
             "2. Drain residual power (hold power button 30+ seconds)",
             "3. Check internal power connections",
             "4. Test with minimal hardware configuration",
             "5. Try known-good PSU if available" >> ] ],

  [ name |-> "slow",
    patterns |-> <<"slow", "lag", "laggy", "sluggish", "takes forever", "very slow">>,
    expert_advice |->
      [ type |-> "expert_diagnosis",
        content |-> "System slow? 95% of cases fixed by one of these:",
        category |-> "Performance",
        confidence |-> "high",
        priority |-> "MEDIUM",
        rule_advice |-> <<
             "Still on HDD * upgrade to SSD = 10x faster",
             "Less than 16GB RAM * upgrade to 32GB",
             "Open Task Manager * kill junk processes",
             "Run Malwarebytes full scan",
             "Disable startup programs",
             "Clean disk + empty %temp%" >> ] ],

  [ name |-> "high_cpu",
    patterns |-> <<"100%", "high cpu", "cpu usage", "fans spinning fast", "fan spinning fast", "fans loud constantly", "fans loud constantly">>,
    expert_advice |->
      [ type |-> "expert_diagnosis",
        content |-> "High CPU usage detected:\n* Background processes consuming resources\n* Malware or cryptocurrency miners\n* Driver conflicts or system file corruption\n* Insufficient RAM causing swap thrashing",
        category |-> "Performance",
        confidence |-> "high",
        priority |-> "MEDIUM",
        rule_advice |-> <<
             "Open Task Manager * Sort by CPU * End high-usage processes",
             "Run full antivirus scan with Malwarebytes",
             "Update all drivers from manufacturer website",
             "Run: sfc /scannow to repair system files",
             "Check for Windows updates" >>,
        troubleshooting_steps |-> <<
             "1. Identify process causing high CPU in Task Manager",
             "2. Run antivirus/malware scan",
             "3. Update drivers and Windows",
             "4. Check for overheating issues",
             "5. Consider clean Windows reinstall if persistent" >> ] ],

  [ name |-> "crashing",
    patterns |-> <<"crash", "crashing", "freezing", "frozen", "freeze", "hang", "not responding">>,
    expert_advice |->
      [ type |-> "expert_diagnosis",
        content |-> "Crashes/freezes = usually one of these:",
        category |-> "Stability",
        confidence |-> "high",
        priority |-> "HIGH",
        rule_advice |-> <<
             "Update GPU + chipset drivers (DDU clean install)",
             "Run Windows Memory Diagnostic overnight",
             "Check temperatures (overheating = crash)",
             "sfc /scannow + DISM /Online /Cleanup-Image /RestoreHealth",
             "Clean Windows install if persistent" >> ] ],

  [ name |-> "overheating",
    patterns |-> <<"hot", "overheat", "overheating", "burning", "too hot", "thermal throttle">>,
    expert_advice |->
      [ type |-> "expert_diagnosis",
        content |-> "OVERHEATING DETECTED * PERMANENT DAMAGE IMMINENT:",
        category |-> "Thermal Emergency",
        confidence |-> "high",
        priority |-> "CRITICAL",
        rule_advice |-> <<
             "STOP USING NOW * clean dust from ALL fans/heatsinks",
             "Download HWMonitor * check temps (90*C+ = danger)",
             "Repaste CPU/GPU if 2+ years old",
             "Elevate laptop / use cooling pad",
             "Undervolt with ThrottleStop/Intel XTU" >> ] ],

  [ name |-> "screen_issue",
    patterns |-> <<"black screen", "no display", "flickering", "glitchy screen", "screen glitch", "lines on screen", "artifacts", "distorted screen">>,
    additional_check |-> "screen_issue",
    expert_advice |->
      [ type |-> "expert_diagnosis",
        content |-> "Display problem detected:",
        category |-> "Display",
        confidence |-> "high",
        priority |-> "HIGH",
        rule_advice |-> <<
             "Try different cable/monitor",
             "Boot in Safe Mode (driver issue?)",
             "DDU + reinstall GPU drivers",
             "Reseat GPU (desktop)",
             "Shine flashlight on screen * faint image? = backlight dead" >> ] ],

  [ name |-> "disk_full",
    patterns |-> <<"no space", "disk full", "storage full", "out of space">>,
    additional_check |-> "disk_full",
    expert_advice |->
      [ type |-> "expert_diagnosis",
        content |-> "Low disk space causes:\n* System slowdown and freezing\n* Inability to install updates\n* Program crashes and data loss risk",
        category |-> "Storage",
        confidence |-> "high",
        priority |-> "MEDIUM",
        rule_advice |-> <<
             "Run Disk Cleanup as Administrator",
             "Delete temporary files in %temp%",
             "Uninstall unused programs",
             "Move large files to external storage",
             "Consider upgrading to larger SSD" >> ] ],

  [ name |-> "drive_noise",
    patterns |-> <<"clicking", "grinding">>,
    expert_advice |->
      [ type |-> "expert_diagnosis",
        content |-> "* CRITICAL: Clicking/grinding sounds indicate HARD DRIVE FAILURE!\n* Mechanical hard drive is physically failing\n* Immediate data backup required\n* Drive will completely fail soon",
        category |-> "Storage Emergency",
        confidence |-> "high",
        priority |-> "CRITICAL",
        rule_advice |-> <<
             "BACKUP IMPORTANT DATA IMMEDIATELY",
             "Do NOT run disk repair tools",
             "Replace drive as soon as possible",
             "Use SSD replacement for better reliability",
             "Consider professional data recovery if critical data" >> ] ],

  [ name |-> "no_internet",
    patterns |-> <<"no internet", "wifi not working", "can't connect", "limited connectivity", "no wifi">>,
    expert_advice |->
      [ type |-> "expert_diagnosis",
        content |-> "Network connectivity issues:\n* Router/modem problems\n* Driver issues\n* DNS or IP configuration\n* Hardware failure",
        category |-> "Network",
        confidence |-> "high",
        priority |-> "MEDIUM",
        rule_advice |-> <<
             "Restart router and modem",
             "Run Windows Network Troubleshooter",
             "Update network adapter drivers",
             "Try: ipconfig /release * ipconfig /renew",
             "Reset TCP/IP stack: netsh int ip reset" >> ] ],

  [ name |-> "keyboard_issue",
    patterns |-> <<>>,
    additional_check |-> "keyboard_issue",
    expert_advice |->
      [ type |-> "expert_diagnosis",
        content |-> "Keyboard problems:\n* Driver or software conflict\n* Physical damage or liquid spill\n* Connection issues (for desktop keyboards)",
        category |-> "Peripheral",
        confidence |-> "medium",
        priority |-> "MEDIUM",
        rule_advice |-> <<
             "Test with On-Screen Keyboard",
             "Update keyboard drivers",
             "Try different USB port",
             "Check for physical damage or debris",
             "Test keyboard on another computer" >> ] ],

  [ name |-> "mouse_issue",
    patterns |-> <<>>,
    additional_check |-> "mouse_issue",
    expert_advice |->
      [ type |-> "expert_diagnosis",
        content |-> "Mouse problems typically:\n* Driver issues\n* Sensor blockage or surface issues\n* Wireless connection problems\n* Physical damage",
        category |-> "Peripheral",
        confidence |-> "medium",
        priority |-> "MEDIUM",
        rule_advice |-> <<
             "Clean mouse sensor with compressed air",
             "Update mouse drivers",
             "Try different surface or mouse pad",
             "Check wireless receiver connection",
             "Test with different USB port" >> ] ],

  [ name |-> "no_sound",
    patterns |-> <<"no sound", "audio not working", "headphones not working", "speakers silent">>,
    expert_advice |->
      [ type |-> "expert_diagnosis",
        content |-> "Audio issues common causes:\n* Driver conflicts or updates needed\n* Wrong playback device selected\n* Cable or connection problems\n* Audio service not running",
        category |-> "Audio",
        confidence |-> "high",
        priority |-> "LOW",
        rule_advice |-> <<
             "Check volume mixer and device selection",
             "Update audio drivers from manufacturer site",
             "Run Windows Audio Troubleshooter",
             "Check physical connections and cables",
             "Restart Windows Audio service" >> ] ],

  [ name |-> "mic_issue",
    patterns |-> <<>>,
    additional_check |-> "mic_issue",
    expert_advice |->
      [ type |-> "expert_diagnosis",
        content |-> "Microphone not working:\n* Privacy settings blocking access\n* Driver issues\n* Wrong input device selected\n* Hardware failure",
        category |-> "Audio",
        confidence |-> "medium",
        priority |-> "LOW",
        rule_advice |-> <<
             "Check microphone privacy settings in Windows",
             "Update audio drivers",
             "Test microphone in Sound settings",
             "Check app-specific microphone permissions",
             "Try different microphone if available" >> ] ],

  [ name |-> "battery_issue",
    patterns |-> <<>>,
    additional_check |-> "battery_issue",
    expert_advice |->
      [ type |-> "expert_diagnosis",
        content |-> "Battery problems:\n* Normal wear (2-3 year lifespan)\n* Charging circuit failure\n* Software/driver issues\n* ** SWOLLEN BATTERY = SAFETY HAZARD",
        category |-> "Power",
        confidence |-> "high",
        priority |-> "HIGH",
        rule_advice |-> <<
             "Run battery health report: powercfg /batteryreport",
             "Update BIOS and chipset drivers",
             "Calibrate battery (drain fully, charge fully)",
             "** If swollen: stop using immediately and replace" >> ] ],

  [ name |-> "bsod",
    patterns |-> <<"blue screen", "bsod", "stop code", "critical process died">>,
    expert_advice |->
      [ type |-> "expert_diagnosis",
        content |-> "Blue Screen of Death analysis:\n* Driver conflicts (most common)\n* Hardware failure (RAM, storage)\n* System file corruption\n* Overheating or power issues",
        category |-> "System Stability",
        confidence |-> "high",
        priority |-> "HIGH",
        rule_advice |-> <<
             "Note the STOP CODE for specific diagnosis",
             "Update ALL drivers, especially GPU and chipset",
             "Run Windows Memory Diagnostic",
             "Check Event Viewer for detailed errors",
             "Run: sfc /scannow and DISM commands" >> ] ],

  [ name |-> "boot_loop",
    patterns |-> <<"boot loop", "restarting loop", "infinite restart", "keeps restarting">>,
    expert_advice |->
      [ type |-> "expert_diagnosis",
        content |-> "Boot looping indicates:\n* Corrupt system files or updates\n* Driver conflicts during boot\n* Hardware component failure\n* Malware or system modification",
        category |-> "Boot Issues",
        confidence |-> "high",
        priority |-> "HIGH",
        rule_advice |-> <<
             "Boot into Safe Mode or Windows Recovery",
             "Use System Restore to previous point",
             "Run Startup Repair from recovery environment",
             "Check for recently installed hardware/software",
             "Last resort: Reset Windows keeping files" >> ] ],

  [ name |-> "boot_failure",
    patterns |-> <<"won't boot", "wont boot", "won't start", "wont start", "stuck on logo", "stuck at logo", "frozen on logo", "stuck on motherboard logo", "asus logo", "dell logo", "hp logo", "lenovo logo", "msi logo", "stuck in booting", "stuck booting", "stuck during boot", "stuck while booting", "stuck on loading", "loading forever", "circle spinning forever", "dots spinning", "automatic repair", "preparing automatic repair", "diagnosing your pc", "hung on boot", "hangs on boot", "freezes during boot", "black screen after logo", "no boot device", "boot device not found", "bootmgr is missing">>,
    expert_advice |->
      [ type |-> "expert_diagnosis",
        content |-> "Windows won't boot * follow this exact order:",
        category |-> "Boot Issues",
        confidence |-> "high",
        priority |-> "CRITICAL",
        rule_advice |-> <<
             "Force power off 3 times * enter Recovery",
             "Startup Repair * System Restore",
             "Command Prompt * bootrec /fixmbr * /fixboot * /rebuildbcd",
             "If SSD * check cable or test in another PC",
             "Reseat RAM + reset BIOS",
             "Last resort * Reset Windows (keep files) or clean install" >> ] ],

  [ name |-> "audio_jack_issue",
    patterns |-> <<"headphone jack not working", "earphone port not working", "audio jack not working", "headphones not detected", "no sound in headphones", "plugged in but sound from speakers", "headphone socket broken", "3.5mm jack dead">>,
    expert_advice |->
      [ type |-> "expert_diagnosis",
        content |-> "Headphone jack dead * 95% fixed with this:",
        category |-> "Audio",
        confidence |-> "high",
        priority |-> "MEDIUM",
        rule_advice |-> <<
             "Plug/unplug 10 times rapidly",
             "Clean jack with toothpick + alcohol",
             "Restart twice",
             "Download REAL driver from laptop brand",
             "Disable audio enhancements",
             "Still dead * jack broken * use USB/Bluetooth adapter" >> ] ],

  [ name |-> "usb_port_issue",
    patterns |-> <<"usb port not working", "usb not recognized", "usb device not detected", "usb ports dead", "usb-c not working", "charging port not working">>,
    expert_advice |->
      [ type |-> "expert_diagnosis",
        content |-> "USB ports not working:",
        category |-> "Ports",
        confidence |-> "high",
        priority |-> "MEDIUM",
        rule_advice |-> <<
             "Try all ports + different devices",
             "Device Manager * uninstall all USB controllers * restart",
             "Update chipset drivers",
             "Disable USB power saving",
             "Still dead * USB controller failed" >> ] ],

  [ name |-> "bluetooth_issue",
    patterns |-> <<"bluetooth not working", "bluetooth disappeared", "can't find bluetooth", "airpods won't connect", "bluetooth device not connecting">>,
    expert_advice |->
      [ type |-> "expert_diagnosis",
        content |-> "Bluetooth missing or not connecting:",
        category |-> "Connectivity",
        confidence |-> "high",
        priority |-> "MEDIUM",
        rule_advice |-> <<
             "Toggle Bluetooth off/on",
             "Device Manager * show hidden * uninstall Bluetooth",
             "Restart twice",
             "Update Bluetooth + chipset drivers from manufacturer",
             "Run Bluetooth troubleshooter" >> ] ],

  [ name |-> "touchpad_issue",
    patterns |-> <<"touchpad not working", "laptop mouse pad dead", "touchpad frozen", "touchpad lagging", "gestures not working">>,
    expert_advice |->
      [ type |-> "expert_diagnosis",
        content |-> "Laptop touchpad not responding:",
        category |-> "Peripheral",
        confidence |-> "high",
        priority |-> "MEDIUM",
        rule_advice |-> <<
             "Fn + F-key with touchpad icon",
             "Update Synaptics/ELAN driver from brand site",
             "Device Manager * uninstall touchpad * restart",
             "Still dead * ribbon cable loose or touchpad failed" >> ] ],

  [ name |-> "charging_issue",
    patterns |-> <<"not charging", "plugged in not charging", "battery stuck at", "charger not recognized">>,
    expert_advice |->
      [ type |-> "expert_diagnosis",
        content |-> "Laptop not charging:",
        category |-> "Power",
        confidence |-> "high",
        priority |-> "HIGH",
        rule_advice |-> <<
             "Hold power 60s unplugged",
             "Try different charger",
             "Remove battery * plug in directly",
             "Update BIOS + chipset",
             "Battery >80% wear * replace",
             "Still not * charging circuit dead" >> ] ],

  [ name |-> "swollen_battery",
    patterns |-> <<"battery swollen", "battery bulging", "trackpad popping up", "battery pushing">>,
    expert_advice |->
      [ type |-> "expert_diagnosis",
        content |-> "SWOLLEN BATTERY = FIRE/EXPLOSION RISK!",
        category |-> "Safety Emergency",
        confidence |-> "high",
        priority |-> "CRITICAL",
        rule_advice |-> <<
             "STOP USING IMMEDIATELY",
             "Do not charge or puncture",
             "Remove battery carefully",
             "Store in cool place away from flammable items",
             "Replace with genuine battery only" >> ] ],

  [ name |-> "emergency",
    patterns |-> <<"smoke", "fire", "spark", "burning", "water", "liquid", "wet">>,
    expert_advice |-> None ]

  >>

(***************************************************************************)
(* Scores.  A Python float score is the fraction <<num, den>>, den > 0.    *)
(***************************************************************************)
\* f > a/b
FracGT(f, a, b) == f[1] * b > a * f[2]

\* f < a/b
FracLT(f, a, b) == f[1] * b < a * f[2]

\* max(f, g), the first argument on a tie as Python's max does
FracMax(f, g) == IF g[1] * f[2] > f[1] * g[2] THEN g ELSE f

\* the unit of a rounded score: round(x, 4) is an integer number of 1/Scale
Scale == 10000

\* round(f, 4) in ten-thousandths (no fraction of the bounded inputs falls
\* on a rounding tie, which needs a denominator divisible by 32)
round4(f) == (2 * Scale * f[1] + f[2]) \div (2 * f[2])

\* engine.py: calculate_similarity
calculate_similarity(a, b) ==
  LET wa == WordSet(a)
      wb == WordSet(b)
  IN  IF wa # {} /\ wb # {}
      THEN <<Cardinality(wa \cap wb), Cardinality(wa \cup wb)>>
      ELSE <<0, 1>>

StopWords ==
  {"the", "a", "an", "to", "my", "me", "it", "is", "on", "in", "with", "and",
   "for", "i", "of", "or", "at", "this", "that", "from"}

calculate_keyword_match_by_substring(q, fq) ==
  LET qw == {w \in WordSet(q) : w \notin StopWords /\ Len(w) > 2}
      n  == Cardinality({w \in qw : Contains(fq, w)})
      d  == Cardinality(qw)
  IN  IF qw = {} THEN <<0, 1>>
      ELSE IF n > d THEN <<1, 1>> ELSE <<n, d>>

\* engine.py: calculate_keyword_match
calculate_keyword_match(q, fq) ==
  LET qw == {w \in WordSet(q) : w \notin StopWords /\ Len(w) > 2}
      fw == {w \in WordSet(fq) : w \notin StopWords /\ Len(w) > 2}
      n  == Cardinality(qw \cap fw)
      d  == Cardinality(qw)
  IN  IF qw = {} THEN <<0, 1>>
      ELSE IF n > d THEN <<1, 1>> ELSE <<n, d>>

(***************************************************************************)
(* Emergency detection                                                     *)
(***************************************************************************)
emergency_patterns ==
  << "smoke", "fire", "spark", "burning smell", "spilled water", "liquid",
     "wet laptop", "dropped in water", "electrical fire", "smoking", "flame",
     "burned", "electrical hazard" >>

EmergencyHeader == "* CRITICAL SAFETY EMERGENCY - IMMEDIATE ACTION REQUIRED! *"

EmergencyAnswer ==
  [ type |-> "emergency",
    content |-> EmergencyHeader
                \o "\n\n* UNPLUG FROM POWER IMMEDIATELY\n"
                \o "* DO NOT TOUCH if smoking or sparking\n"
                \o "* NO WATER on electrical fires\n"
                \o "* If liquid spilled: power off * remove battery * dry 72+ hours\n"
                \o "* Contact professional technician before reuse",
    priority |-> "CRITICAL",
    confidence |-> "perfect",
    rule_advice |-> <<
       "UNPLUG POWER CORD NOW",
       "Move away from flammable materials",
       "Call emergency services if fire develops",
       "Do not attempt to use until professionally inspected" >>,
    troubleshooting_steps |-> <<
       "1. SAFETY FIRST - Unplug immediately",
       "2. Evacuate area if heavy smoke",
       "3. Contact professional repair service",
       "4. Do not attempt DIY repair on electrical hazards" >> ]

\* engine.py: check_emergency_situation; None when no pattern matches
check_emergency_situation(q) ==
  IF \E k \in DOMAIN emergency_patterns : re_search_word(emergency_patterns[k], q)
  THEN EmergencyAnswer
  ELSE None

(***************************************************************************)
(* Symptom extraction                                                      *)
(***************************************************************************)
\* the "additional_check" lambda of the named symptom, applied to a word set
additional_check(name, words) ==
  CASE name = "no_power"       -> "dead" \in words
    [] name = "screen_issue"   -> \E w \in {"screen", "display", "monitor"} : w \in words
    [] name = "disk_full"      -> "full" \in words
    [] name = "keyboard_issue" ->
         /\ "keyboard" \in words
         /\ \E w \in {"not", "working", "stuck", "broken"} : w \in words
    [] name = "mouse_issue"    ->
         /\ \E w \in {"mouse", "cursor"} : w \in words
         /\ \E w \in {"not", "working", "jumping", "broken"} : w \in words
    [] name = "mic_issue"      ->
         "microphone" \in words \/ ("mic" \in words /\ "not" \in words)
    [] name = "battery_issue"  ->
         /\ "battery" \in words
         /\ \E w \in {"draining", "not charging", "swollen"} : w \in words
    [] OTHER -> FALSE

extract_all_symptoms_first_only(defs, q) ==
  LET q_lower == lower(q)
      words   == WordSet(q_lower)
      detected(d) ==
        \/ ContainsAny(q_lower, d.patterns)
        \/ /\ "additional_check" \in DOMAIN d
           /\ additional_check(d.additional_check, words)
      hits == {i \in DOMAIN defs : detected(defs[i])}
  IN  Eager([n \in {defs[i].name : i \in DOMAIN defs} |->
               \E i \in hits : defs[i].name = n /\ \A j \in hits : i <= j])

\* engine.py: extract_all_symptoms; the mapping symptom name -> detected
extract_all_symptoms(defs, q) ==
  LET q_lower == lower(q)
      words   == WordSet(q_lower)
      detected(d) ==
        LET pattern_match == ContainsAny(q_lower, d.patterns)
            additional_match ==
              IF "additional_check" \in DOMAIN d
              THEN additional_check(d.additional_check, words)
              ELSE FALSE
        IN  pattern_match \/ additional_match
  IN  Eager([n \in {defs[i].name : i \in DOMAIN defs} |->
               detected(defs[CHOOSE i \in DOMAIN defs : defs[i].name = n])])

\* the keys of the symptoms mapping in iteration (registry insertion) order
SymptomOrder(defs) == Eager([i \in DOMAIN defs |-> defs[i].name])

\* a fresh dict made by the call, as opposed to an object of the knowledge
\* base or of the registry
LocalObject(tag, i, j) == <<"local", tag, i, j>>

GenericAdvice_other_tag(original_question) ==
  [ type |-> "expert_advice",
    content |-> "Based on your description * \"" \o original_question
                \o "\" * here are the most likely causes and fixes:",
    category |-> "General Diagnosis",
    confidence |-> "medium",
    priority |-> "MEDIUM" ]

\* the generic diagnostic answer of master_generate_advice (lines 1049-1069)
GenericAdvice(original_question) ==
  [ type |-> "expert_generic",
    content |-> "Based on your description * \"" \o original_question
                \o "\" * here are the most likely causes and fixes:",
    category |-> "General Diagnosis",
    confidence |-> "medium",
    priority |-> "MEDIUM",
    rule_advice |-> <<
       "Restart in Safe Mode to isolate software vs hardware",
       "Run Windows Memory Diagnostic",
       "Check Device Manager for yellow triangles",
       "Update all drivers from manufacturer site (not Windows Update)",
       "Run: sfc /scannow and DISM /Online /Cleanup-Image /RestoreHealth" >>,
    troubleshooting_steps |-> <<
       "1. Note exact error messages or behavior",
       "2. Try Safe Mode (hold Shift + Restart)",
       "3. Run hardware diagnostics if available",
       "4. Backup important data first" >> ]

\* symptom_def["expert_advice"].copy(): a new dict with the template's items
copy_advice(defs, i) ==
  SetItem(defs[i].expert_advice, "obj", LocalObject("advice", i, 0))

master_generate_advice_with_generic(defs, symptoms, original_question, q, metrics) ==
  LET emergency_advice ==
        IF symptoms["emergency"] THEN check_emergency_situation(q) ELSE None
      advice ==
        FlattenSeq(Eager([i \in DOMAIN defs |->
          IF /\ symptoms[defs[i].name]
             /\ defs[i].name # "emergency"
             /\ ~IsNone(defs[i].expert_advice)
          THEN <<copy_advice(defs, i)>>
          ELSE <<>>]))
  IN  IF ~IsNone(emergency_advice) THEN <<emergency_advice>>
      ELSE advice \o <<GenericAdvice(original_question)>>

\* engine.py: master_generate_advice
master_generate_advice(defs, symptoms, original_question, q, metrics) ==
  LET emergency_advice ==
        IF symptoms["emergency"] THEN check_emergency_situation(q) ELSE None
      advice ==
        FlattenSeq(Eager([i \in DOMAIN defs |->
          IF /\ symptoms[defs[i].name]
             /\ defs[i].name # "emergency"
             /\ ~IsNone(defs[i].expert_advice)
          THEN <<copy_advice(defs, i)>>
          ELSE <<>>]))
  IN  IF ~IsNone(emergency_advice) THEN <<emergency_advice>>
      ELSE IF advice = <<>> THEN <<GenericAdvice(original_question)>>
      ELSE advice

\* engine.py: generate_metric_advice
generate_metric_advice(metrics) ==
  (IF Get(metrics, "cpu_temp", 0) > 92
   THEN << [ type |-> "metric_alert",
             content |-> "* CRITICAL: CPU temperature "
                         \o ToString(metrics.cpu_temp)
                         \o "*C - Risk of permanent damage!",
             category |-> "Thermal Emergency",
             confidence |-> "high",
             priority |-> "CRITICAL" ] >>
   ELSE <<>>)
  \o
  (IF Get(metrics, "gpu_temp", 0) > 88
   THEN << [ type |-> "metric_alert",
             content |-> "** GPU Overheating: " \o ToString(metrics.gpu_temp) \o "*C",
             category |-> "Thermal",
             confidence |-> "high",
             priority |-> "HIGH" ] >>
   ELSE <<>>)
  \o
  (IF Get(metrics, "memory_usage", 0) > 92
   THEN << [ type |-> "metric_alert",
             content |-> "* RAM nearly full * Close apps or upgrade",
             category |-> "Performance",
             confidence |-> "medium",
             priority |-> "HIGH" ] >>
   ELSE <<>>)

\* engine.py: fallback_answer
fallback_answer ==
  [ type |-> "need_more_info",
    content |-> "I can definitely help you! To give the best advice, please tell me:\n"
                \o "* Exact error message (if any)\n"
                \o "* When did it start happening?\n"
                \o "* Laptop or desktop? Brand & model?\n"
                \o "* What changed recently (updates, new software, drop, spill)?",
    category |-> "Clarification Needed",
    confidence |-> "high",
    priority |-> "MEDIUM" ]

(***************************************************************************)
(* Ordering                                                                *)
(***************************************************************************)
\* tuple a sorts before tuple b (same length), as Python compares tuples
LexLess(a, b) ==
  \E i \in DOMAIN a : a[i] < b[i] /\ \A j \in 1..(i - 1) : a[j] = b[j]

RECURSIVE SortDescFrom(_, _, _, _)
\* list.sort(key=..., reverse=True): a stable sort, so elements with equal
\* keys keep their order; keys is aligned with s, acc is the sorted prefix
\* as a sequence of indices of s
SortDescFrom(s, keys, i, acc) ==
  IF i > Len(s) THEN Eager([k \in DOMAIN acc |-> s[acc[k]]])
  ELSE LET smaller == {k \in DOMAIN acc : LexLess(keys[acc[k]], keys[i])}
           pos == IF smaller = {} THEN Len(acc) + 1
                  ELSE CHOOSE k \in smaller : \A h \in smaller : k <= h
       IN  SortDescFrom(s, keys, i + 1,
                        SubSeq(acc, 1, pos - 1) \o <<i>> \o SubSeq(acc, pos, Len(acc)))

SortDesc(s, keys) == SortDescFrom(Eager(s), Eager(keys), 1, <<>>)

priority_order(p) ==
  CASE p = "CRITICAL" -> 5
    [] p = "HIGH"     -> 4
    [] p = "MEDIUM"   -> 3
    [] p = "LOW"      -> 2
    [] p = "NORMAL"   -> 1
    [] OTHER          -> 0

confidence_order(c) ==
  CASE c = "perfect" -> 4
    [] c = "high"    -> 3
    [] c = "medium"  -> 2
    [] c = "low"     -> 1
    [] OTHER         -> 0

(***************************************************************************)
(* Knowledge-base matching (enhanced_reason, step 3)                       *)
(***************************************************************************)
Punctuation == {"?", ".", "!"}

score_entry_exact_needs_text(q, original_question, qa) ==
  LET fq       == lower(qa.question)
      fq_clean == strip(strip_chars(fq, Punctuation))
      q_clean  == strip(strip_chars(q, Punctuation))
      similarity    == calculate_similarity(q, fq)
      keyword_match == calculate_keyword_match(q, fq)
      exact_or_quoted ==
        \/ fq_clean # "" /\ Contains(q_clean, fq_clean)
        \/ q_clean # "" /\ Contains(fq_clean, q_clean)
        \/ Contains(original_question, "\"" \o qa.question \o "\"")
        \/ Contains(original_question, "'" \o qa.question \o "'")
      combined_score ==
        IF exact_or_quoted THEN <<1, 1>> ELSE FracMax(similarity, keyword_match)
      shared == Cardinality(WordSet(q) \cap WordSet(fq))
  IN  [ similarity      |-> similarity,
        keyword_match   |-> keyword_match,
        exact_or_quoted |-> exact_or_quoted,
        combined_score  |-> combined_score,
        shared          |-> shared,
        is_candidate    |-> \/ FracGT(combined_score, 2, 10)
                            \/ FracGT(keyword_match, 3, 10)
                            \/ shared >= 2
                            \/ exact_or_quoted ]

score_entry_without_shared_words(q, original_question, qa) ==
  LET fq       == lower(qa.question)
      fq_clean == strip(strip_chars(fq, Punctuation))
      q_clean  == strip(strip_chars(q, Punctuation))
      similarity    == calculate_similarity(q, fq)
      keyword_match == calculate_keyword_match(q, fq)
      exact_or_quoted ==
        \/ Contains(q_clean, fq_clean)
        \/ Contains(fq_clean, q_clean)
        \/ Contains(original_question, "\"" \o qa.question \o "\"")
        \/ Contains(original_question, "'" \o qa.question \o "'")
      combined_score ==
        IF exact_or_quoted THEN <<1, 1>> ELSE FracMax(similarity, keyword_match)
      shared == Cardinality(WordSet(q) \cap WordSet(fq))
  IN  [ similarity      |-> similarity,
        keyword_match   |-> keyword_match,
        exact_or_quoted |-> exact_or_quoted,
        combined_score  |-> combined_score,
        shared          |-> shared,
        is_candidate    |-> \/ FracGT(combined_score, 2, 10)
                            \/ FracGT(keyword_match, 3, 10)
                            \/ exact_or_quoted ]

\* the scores of one well-formed entry against the query (lines 602-625)
score_entry(q, original_question, qa) ==
  LET fq       == lower(qa.question)
      fq_clean == strip(strip_chars(fq, Punctuation))
      q_clean  == strip(strip_chars(q, Punctuation))
      similarity    == calculate_similarity(q, fq)
      keyword_match == calculate_keyword_match(q, fq)
      exact_or_quoted ==
        \/ Contains(q_clean, fq_clean)
        \/ Contains(fq_clean, q_clean)
        \/ Contains(original_question, "\"" \o qa.question \o "\"")
        \/ Contains(original_question, "'" \o qa.question \o "'")
      combined_score ==
        IF exact_or_quoted THEN <<1, 1>> ELSE FracMax(similarity, keyword_match)
      shared == Cardinality(WordSet(q) \cap WordSet(fq))
  IN  [ similarity      |-> similarity,
        keyword_match   |-> keyword_match,
        exact_or_quoted |-> exact_or_quoted,
        combined_score  |-> combined_score,
        shared          |-> shared,
        is_candidate    |-> \/ FracGT(combined_score, 2, 10)
                            \/ FracGT(keyword_match, 3, 10)
                            \/ shared >= 2
                            \/ exact_or_quoted ]

\* engine.py: is_emergency_content
is_emergency_content(content) ==
  LET emergency_phrases ==
        << "IMMEDIATELY shut down", "unplug power", "remove battery",
           "drain liquid", "do not use heat to dry", "let dry completely",
           "liquid spill", "water damage", "wet laptop" >>
      content_upper == upper(content)
  IN  \E k \in DOMAIN emergency_phrases :
        Contains(content_upper, upper(emergency_phrases[k]))

\* the entry qi of category ci of the knowledge base, as an object
EntryObject(ci, qi) == <<"entry", "qa", ci, qi>>

match_object_is_the_entry(ci, qi) == EntryObject(ci, qi)

\* the object appended to kb_matches for entry qi of category ci: a new dict
\* literal (lines 637-648)
match_object(ci, qi) == LocalObject("match", ci, qi)

kb_match_with_low_tier(category, qa, sc, metrics, ci, qi) ==
  LET confidence ==
        IF sc.exact_or_quoted THEN "perfect"
        ELSE IF FracGT(sc.combined_score, 5, 10) THEN "high"
        ELSE IF FracGT(sc.combined_score, 2, 10) THEN "medium" ELSE "low"
      match_score == IF sc.exact_or_quoted THEN <<1, 1>> ELSE sc.combined_score
      flat_fact ==
        [ question |-> qa.question,
          answer   |-> Get(qa, "answer", ""),
          category |-> category ]
  IN  [ type |-> "kb_match",
        content |-> Get(qa, "answer", "No detailed answer available."),
        category |-> category,
        confidence |-> confidence,
        match_score |-> round4(match_score),
        priority |-> get_priority_level(flat_fact, metrics),
        rule_advice |-> execute_all_rules(flat_fact, metrics),
        troubleshooting_steps |-> generate_troubleshooting_steps(flat_fact),
        source_question |-> qa.question,
        is_emergency_content |-> is_emergency_content(Get(qa, "answer", "")),
        obj |-> match_object(ci, qi) ]

\* the candidate built for a scored entry (lines 627-648)
kb_match(category, qa, sc, metrics, ci, qi) ==
  LET confidence ==
        IF sc.exact_or_quoted THEN "perfect"
        ELSE IF FracGT(sc.combined_score, 5, 10) THEN "high" ELSE "medium"
      match_score == IF sc.exact_or_quoted THEN <<1, 1>> ELSE sc.combined_score
      flat_fact ==
        [ question |-> qa.question,
          answer   |-> Get(qa, "answer", ""),
          category |-> category ]
  IN  [ type |-> "kb_match",
        content |-> Get(qa, "answer", "No detailed answer available."),
        category |-> category,
        confidence |-> confidence,
        match_score |-> round4(match_score),
        priority |-> get_priority_level(flat_fact, metrics),
        rule_advice |-> execute_all_rules(flat_fact, metrics),
        troubleshooting_steps |-> generate_troubleshooting_steps(flat_fact),
        source_question |-> qa.question,
        is_emergency_content |-> is_emergency_content(Get(qa, "answer", "")),
        obj |-> match_object(ci, qi) ]

\* a category of the knowledge base the loop does not skip (line 592)
WellFormedCategory(category_fact) ==
  isinstance_dict(category_fact) /\ "questions" \in DOMAIN category_fact

\* a question/answer pair the loop does not skip (line 599)
WellFormedPair(qa) == isinstance_dict(qa) /\ "question" \in DOMAIN qa

score_all_until_malformed(fs, q, original_question) ==
  LET malformed == {ci \in DOMAIN fs : ~WellFormedCategory(fs[ci])}
      last == IF malformed = {} THEN Len(fs)
              ELSE (CHOOSE ci \in malformed : \A cj \in malformed : ci <= cj) - 1
  IN  FlattenSeq(Eager([ci \in 1..last |->
        FlattenSeq(Eager([qi \in DOMAIN fs[ci].questions |->
           IF ~WellFormedPair(fs[ci].questions[qi]) THEN <<>>
           ELSE << [ ci |-> ci, qi |-> qi,
                     sc |-> score_entry(q, original_question,
                                        fs[ci].questions[qi]) ] >>]))]))

\* the scores of every well-formed entry, in knowledge-base order
score_all(fs, q, original_question) ==
  FlattenSeq(Eager([ci \in DOMAIN fs |->
    IF ~WellFormedCategory(fs[ci]) THEN <<>>
    ELSE FlattenSeq(Eager([qi \in DOMAIN fs[ci].questions |->
           IF ~WellFormedPair(fs[ci].questions[qi]) THEN <<>>
           ELSE << [ ci |-> ci, qi |-> qi,
                     sc |-> score_entry(q, original_question,
                                        fs[ci].questions[qi]) ] >>]))]))

\* kb_matches after the loop of step 3 (lines 590-648)
match_knowledge_base(fs, scores, metrics) ==
  FlattenSeq(Eager([k \in DOMAIN scores |->
    IF ~scores[k].sc.is_candidate THEN <<>>
    ELSE LET category_fact == fs[scores[k].ci]
         IN  << kb_match(Get(category_fact, "category", "General"),
                         category_fact.questions[scores[k].qi],
                         scores[k].sc, metrics,
                         scores[k].ci, scores[k].qi) >>]))

(***************************************************************************)
(* Relevance filter (enhanced_reason, step 4)                              *)
(***************************************************************************)
\* line 659: any(word in q for word in [...])
query_has_emergency(q) ==
  ContainsAny(q, << "water", "liquid", "spill", "wet", "smoke", "fire",
                    "spark", "burning" >>)

\* the relevance of lines 889-902, before it is clamped: the match score,
\* boosted and penalized, in ten-thousandths
adjusted_relevance(match, query) ==
  LET power_queries ==
        << "won't turn on", "no power", "dead", "not powering on", "wont turn on" >>
      boost ==
        IF /\ ContainsAny(query, power_queries)
           /\ \/ Contains(lower(Get(match, "content", "")), "power")
              \/ Contains(lower(Get(match, "source_question", "")), "power")
        THEN 3000 ELSE 0
      penalty ==
        IF /\ Get(match, "is_emergency_content", FALSE)
           /\ ~ContainsAny(query, << "water", "liquid", "spill", "wet",
                                     "smoke", "fire" >>)
        THEN 4000 ELSE 0
  IN  Get(match, "match_score", 0) + boost - penalty

calculate_query_relevance_unclamped(match, query) ==
  adjusted_relevance(match, query)

\* engine.py: calculate_query_relevance, in ten-thousandths (line 904)
calculate_query_relevance(match, query) ==
  Max(0, Min(Scale, adjusted_relevance(match, query)))

\* engine.py: is_emergency_context_appropriate
is_emergency_context_appropriate(match, query) ==
  IF ~Get(match, "is_emergency_content", FALSE) THEN TRUE
  ELSE LET has_emergency ==
             ContainsAny(query, << "water", "liquid", "spill", "wet", "smoke",
                                   "fire", "spark", "burning" >>)
           match_content == lower(Get(match, "content", ""))
       IN  IF /\ has_emergency
              /\ \/ Contains(query, "water") /\ Contains(match_content, "fire")
                 \/ Contains(query, "fire") /\ Contains(match_content, "water")
           THEN FALSE
           ELSE has_emergency

MainStopWords ==
  {"the", "a", "an", "to", "my", "me", "it", "is", "on", "in", "with",
   "and", "for", "i", "of", "or", "at", "this", "that", "from", "what",
   "why", "how", "when", "where", "can", "could", "would", "should",
   "please", "help", "computer", "laptop", "pc", "desktop", "won't", "wont"}

\* engine.py: extract_main_keywords; a list, repeated words stay repeated
extract_main_keywords(q) ==
  LET words == split(lower(q))
  IN  FlattenSeq(Eager([i \in DOMAIN words |->
        IF words[i] \notin MainStopWords /\ Len(words[i]) > 2
        THEN <<strip_chars(words[i], Punctuation)>>
        ELSE <<>>]))

\* engine.py: calculate_relevance_score, a fraction
calculate_relevance_score(question_keywords, match_text) ==
  IF question_keywords = <<>> THEN <<0, 1>>
  ELSE << Cardinality({i \in DOMAIN question_keywords :
                         Contains(match_text, question_keywords[i])}),
          Len(question_keywords) >>

\* all_matches after the partition, the scoring and the sort (lines 655-680)
rank_matches(kb_matches, q) ==
  LET is_em == Eager([i \in DOMAIN kb_matches |->
                  Get(kb_matches[i], "is_emergency_content", FALSE)])
      emergency_matches == SelectSeqBy(kb_matches, is_em)
      normal_matches ==
        SelectSeqBy(kb_matches, [i \in DOMAIN kb_matches |-> ~is_em[i]])
      all_matches ==
        IF query_has_emergency(q)
        THEN emergency_matches \o normal_matches
        ELSE normal_matches \o emergency_matches
      scored ==
        Eager([i \in DOMAIN all_matches |->
           SetItem(all_matches[i], "relevance_score",
                   calculate_query_relevance(all_matches[i], q))])
  IN  SortDesc(scored,
               [i \in DOMAIN scored |->
                  << scored[i].relevance_score,
                     confidence_order(scored[i].confidence),
                     scored[i].match_score >>])

RECURSIVE filter_loop(_, _, _, _, _)
\* the acceptance loop over all_matches from index i on (lines 686-717);
\* best_matches is the list accepted so far
filter_loop(all_matches, i, best_matches, q, question_keywords) ==
  IF i > Len(all_matches) THEN best_matches
  ELSE
    LET match == all_matches[i]
        match_text ==
          lower(match.content \o " " \o Get(match, "source_question", ""))
        relevance_score == calculate_relevance_score(question_keywords, match_text)
        good == match.confidence \in {"perfect", "high"}
        skip ==
          \/ match.confidence = "low" /\ match.match_score < 4000
          \/ ~is_emergency_context_appropriate(match, q)
          \/ /\ Get(match, "is_emergency_content", FALSE)
             /\ ~query_has_emergency(q)
             /\ FracLT(relevance_score, 7, 10)
        accept ==
          /\ \/ FracGT(relevance_score, 3, 10)
             \/ good
             \/ match.match_score > 6000
          /\ \/ \A k \in DOMAIN best_matches :
                  best_matches[k].category # match.category
             \/ good
        next_best == IF accept THEN Append(best_matches, match) ELSE best_matches
    IN  IF skip THEN filter_loop(all_matches, i + 1, best_matches, q, question_keywords)
        ELSE IF Len(next_best) >= 2 /\ match.match_score > 7000 THEN next_best
        ELSE filter_loop(all_matches, i + 1, next_best, q, question_keywords)

select_best_matches_without_fallback(all_matches, q) ==
  LET looped == filter_loop(all_matches, 1, <<>>, q, extract_main_keywords(q))
      cleaned ==
        IF Len(looped) >= 2
        THEN SelectSeqBy(looped,
               [i \in DOMAIN looped |->
                  \/ looped[i].match_score > 3000
                  \/ looped[i].confidence \in {"perfect", "high"}])
        ELSE looped
  IN  Take(cleaned, 2)

\* best_kb_matches before the answer markers are put in (lines 683-730)
select_best_matches(all_matches, q) ==
  LET looped == filter_loop(all_matches, 1, <<>>, q, extract_main_keywords(q))
      cleaned ==
        IF Len(looped) >= 2
        THEN SelectSeqBy(looped,
               [i \in DOMAIN looped |->
                  \/ looped[i].match_score > 3000
                  \/ looped[i].confidence \in {"perfect", "high"}])
        ELSE looped
      appropriate_matches ==
        SelectSeqBy(all_matches,
          [i \in DOMAIN all_matches |->
             is_emergency_context_appropriate(all_matches[i], q)])
      best_matches ==
        IF cleaned = <<>> /\ all_matches # <<>>
        THEN IF appropriate_matches # <<>>
             THEN Take(appropriate_matches, 1)
             ELSE Take(all_matches, 1)
        ELSE cleaned
  IN  Take(best_matches, 2)

\* the content assigned to a surviving match (lines 732-735)
marked_content(match) ==
  IF match.confidence = "perfect"
  THEN "* Direct answer:\n" \o match.content
  ELSE "* Related answer:\n" \o match.content

content_write_to_the_entry(match) ==
  [ obj |-> EntryObject(match.obj[3], match.obj[4]), key |-> "answer",
    value |-> marked_content(match) ]

\* the assignment match["content"] = ... of lines 733 and 735: the object
\* written, the key and the value
content_write(match) ==
  [obj |-> match.obj, key |-> "content", value |-> marked_content(match)]

\* the assignment match["relevance_score"] = ... of line 673
relevance_write(match) ==
  [obj |-> match.obj, key |-> "relevance_score", value |-> match.relevance_score]

(***************************************************************************)
(* Advice fusion (enhanced_reason, steps 5-8) and context pruning          *)
(***************************************************************************)
\* engine.py: should_enhance_with_symptom_advice
should_enhance_with_symptom_advice(kb_matches, symptom_advice) ==
  LET is_generic(kb_content) ==
        \/ Contains(lower(kb_content), "most commonly caused by")
        \/ Contains(lower(kb_content), "usually due to")
        \/ Contains(lower(kb_content), "typically caused by")
        \/ Contains(lower(kb_content), "this is often")
        \/ Len(kb_content) < 150
      symptom_content == lower(Get(symptom_advice, "content", ""))
      adds_value(kb_match_) ==
        LET kb_content == lower(Get(kb_match_, "content", ""))
        IN  \/ /\ Get(symptom_advice, "troubleshooting_steps", <<>>) # <<>>
               /\ Get(kb_match_, "troubleshooting_steps", <<>>) = <<>>
            \/ Len(symptom_content) > Len(kb_content) + 100
            \/ Get(symptom_advice, "priority", "") \in {"CRITICAL", "HIGH"}
            \/ Contains(symptom_content, "driver") /\ ~Contains(kb_content, "driver")
            \/ Contains(symptom_content, "thermal") /\ ~Contains(kb_content, "thermal")
            \/ /\ Contains(symptom_content, "temperature")
               /\ ~Contains(kb_content, "temperature")
  IN  IF Len(kb_matches) >= 3 THEN FALSE
      ELSE \/ \E k \in DOMAIN kb_matches :
                /\ is_generic(Get(kb_matches[k], "content", ""))
                /\ Get(symptom_advice, "confidence", "") = "high"
           \/ \E k \in DOMAIN kb_matches : adds_value(kb_matches[k])

merge_answers_knowledge_only(best_kb_matches, symptom_advice) ==
  IF best_kb_matches # <<>> THEN best_kb_matches ELSE symptom_advice

\* answers after step 5 (lines 738-750)
merge_answers(best_kb_matches, symptom_advice) ==
  IF best_kb_matches # <<>>
  THEN best_kb_matches
       \o SelectSeqBy(symptom_advice,
            [i \in DOMAIN symptom_advice |->
               should_enhance_with_symptom_advice(best_kb_matches, symptom_advice[i])])
  ELSE symptom_advice

\* "if system_metrics:" - neither None nor an empty dict
Truthy(metrics) == ~IsNone(metrics) /\ DOMAIN metrics # {}

relevant_metric_alerts_untied(answers, symptoms, metrics) ==
  IF ~Truthy(metrics) THEN <<>> ELSE generate_metric_advice(metrics)

\* relevant_metrics of step 6 (lines 753-764); answers is the list so far
relevant_metric_alerts(answers, symptoms, metrics) ==
  IF ~Truthy(metrics) THEN <<>>
  ELSE LET metric_alerts == generate_metric_advice(metrics)
       IN  SelectSeqBy(metric_alerts,
             [i \in DOMAIN metric_alerts |->
                \/ /\ Get(symptoms, "overheating", FALSE)
                   /\ Contains(lower(metric_alerts[i].content), "temperature")
                \/ /\ Get(symptoms, "slow", FALSE)
                   /\ Contains(lower(metric_alerts[i].content), "memory")
                \/ answers = <<>>])

\* the preventive answer of step 7, or nothing (lines 767-787)
preventive_answers(answers, symptoms, original_question) ==
  LET fake_fact == [question |-> original_question, answer |-> "",
                    category |-> "Maintenance"]
      maint == get_preventive_maintenance_advice(fake_fact)
      mentions(w) == \E i \in DOMAIN maint : Contains(lower(maint[i]), w)
      should_add_preventive ==
        IF Get(symptoms, "overheating", FALSE) /\ maint # <<>> /\ mentions("clean")
        THEN TRUE
        ELSE IF /\ Get(symptoms, "slow", FALSE) /\ maint # <<>>
                /\ (mentions("update") \/ mentions("clean"))
        THEN TRUE
        ELSE /\ maint # <<>>
             /\ ~\E i \in DOMAIN answers : Get(answers[i], "type", "") = "preventive"
  IN  IF maint # <<>> /\ should_add_preventive
      THEN << [ type |-> "preventive",
                content |-> "** Long-term prevention tips:",
                category |-> "Maintenance",
                confidence |-> "medium",
                priority |-> "LOW",
                rule_advice |-> maint ] >>
      ELSE <<>>

weak_result_fallback_keeps_match(answers, symptom_advice) ==
  IF \/ answers = <<>>
     \/ Len(answers) = 1 /\ Get(answers[1], "match_score", 0) < 4000
  THEN symptom_advice \o answers
  ELSE answers

\* answers after step 8 (lines 790-794); symptom_advice is generated again
\* by the same call of master_generate_advice
weak_result_fallback(answers, symptom_advice) ==
  IF \/ answers = <<>>
     \/ Len(answers) = 1 /\ Get(answers[1], "match_score", 0) < 4000
  THEN IF symptom_advice # <<>>
       THEN symptom_advice
            \o SelectSeqBy(answers,
                 [i \in DOMAIN answers |-> Get(answers[i], "type", "") # "kb_match"])
       ELSE answers
  ELSE answers

main_symptom_of_last(order, primary_symptoms) ==
  LET hits == {i \in DOMAIN order :
                 primary_symptoms[order[i]] /\ order[i] # "emergency"}
  IN  IF hits = {} THEN "None"
      ELSE order[CHOOSE i \in hits : \A j \in hits : i >= j]

\* the first detected symptom other than "emergency" in iteration order, or
\* None (lines 803-807)
main_symptom_of(order, primary_symptoms) ==
  LET hits == {i \in DOMAIN order :
                 primary_symptoms[order[i]] /\ order[i] # "emergency"}
  IN  IF hits = {} THEN "None"
      ELSE order[CHOOSE i \in hits : \A j \in hits : i <= j]

filter_irrelevant_answers_power_and_screen(answers, query, order, primary_symptoms) ==
  LET main_symptom == main_symptom_of(order, primary_symptoms)
      dropped(answer) ==
        LET answer_category == Get(answer, "category", "")
            answer_type     == Get(answer, "type", "")
            content         == lower(Get(answer, "content", ""))
        IN  \/ /\ main_symptom = "no_power"
               /\ \/ answer_category \in {"Input Devices", "Peripheral", "Audio"}
                  \/ answer_type = "preventive"
            \/ /\ main_symptom = "screen_issue"
               /\ answer_category \in {"Input Devices", "Peripheral", "Audio"}
            \/ /\ Contains(content, "keyboard") /\ Contains(content, "clean")
               /\ main_symptom \in {"no_power", "slow", "high_cpu",
                                    "screen_issue", "crashing"}
  IN  SelectSeqBy(answers, [i \in DOMAIN answers |-> ~dropped(answers[i])])

\* engine.py: filter_irrelevant_answers (nested in enhanced_reason)
filter_irrelevant_answers(answers, query, order, primary_symptoms) ==
  LET main_symptom == main_symptom_of(order, primary_symptoms)
      dropped(answer) ==
        LET answer_category == Get(answer, "category", "")
            answer_type     == Get(answer, "type", "")
            content         == lower(Get(answer, "content", ""))
        IN  \/ /\ main_symptom = "no_power"
               /\ \/ answer_category \in {"Input Devices", "Peripheral", "Audio"}
                  \/ answer_type = "preventive"
            \/ /\ main_symptom \in {"slow", "high_cpu", "crashing"}
               /\ \/ answer_category \in {"Input Devices", "Peripheral"}
                  \/ Contains(content, "liquid")
                  \/ Contains(content, "spill")
            \/ /\ main_symptom = "screen_issue"
               /\ answer_category \in {"Input Devices", "Peripheral", "Audio"}
            \/ /\ Contains(content, "keyboard") /\ Contains(content, "clean")
               /\ main_symptom \in {"no_power", "slow", "high_cpu",
                                    "screen_issue", "crashing"}
  IN  SelectSeqBy(answers, [i \in DOMAIN answers |-> ~dropped(answers[i])])

(***************************************************************************)
(* Ranking and deduplication (enhanced_reason, step 9)                     *)
(***************************************************************************)
final_key_relevance_first(x) ==
  << Get(x, "relevance_score", 0),
     priority_order(Get(x, "priority", "LOW")),
     confidence_order(Get(x, "confidence", "low")),
     Get(x, "match_score", 0) >>

\* the sort key of the final sort (lines 855-860)
final_key(x) ==
  << priority_order(Get(x, "priority", "LOW")),
     Get(x, "relevance_score", 0),
     confidence_order(Get(x, "confidence", "low")),
     Get(x, "match_score", 0) >>

final_sort(answers) ==
  SortDesc(answers, [i \in DOMAIN answers |-> final_key(answers[i])])

\* the number of leading characters of the content that identify an answer
PreviewLen == 150

\* hash(s) is a function of the string, so equal previews give equal keys;
\* distinct previews are taken to hash apart
dedup_key(a) ==
  <<a.type, lower(SubSeq(a.content, 1, Min(PreviewLen, Len(a.content))))>>

deduplicate_nothing(answers) == answers

\* unique after the loop of lines 862-870
deduplicate(answers) ==
  KeepFirst(answers, [i \in DOMAIN answers |-> dedup_key(answers[i])])

\* the length of the returned list is at most this (line 872)
MaxAnswers == 4

truncate_without_fallback(unique) == Take(unique, MaxAnswers)

truncate_nothing(unique) ==
  IF unique # <<>> THEN unique ELSE <<fallback_answer>>

\* line 872
truncate(unique) == IF unique # <<>> THEN Take(unique, MaxAnswers) ELSE <<fallback_answer>>

\* the dict the caller receives: the model's object identity is dropped
Public(a) == Eager([k \in DOMAIN a \ {"obj"} |-> a[k]])

(***************************************************************************)
(* The whole call                                                          *)
(***************************************************************************)
short_circuit_keeps_answers(emergency, answers) ==
  IF ~IsNone(emergency) THEN <<emergency>> \o answers ELSE answers

\* lines 582-584: an emergency answer is returned alone, at once
short_circuit(emergency, answers) ==
  IF ~IsNone(emergency) THEN <<emergency>> ELSE answers

\* The local variables of one call of enhanced_reason are a record, and each
\* section of the function adds the variables it assigns.

\* lines 576-579: the arguments, q and original_question
locals_at_entry(fs, defs, question_, metrics) ==
  [ fs |-> fs, defs |-> defs, metrics |-> metrics,
    original_question |-> question_, q |-> strip(lower(question_)) ]

\* line 582
section_1_emergency(s) ==
  [emergency |-> check_emergency_situation(s.q)] @@ s

\* line 587
section_2_symptoms(s) ==
  [symptoms |-> extract_all_symptoms(s.defs, s.q)] @@ s

\* lines 602-628, for every entry
section_3_scores(s) ==
  [scores |-> score_all(s.fs, s.q, s.original_question)] @@ s

\* lines 590-648
section_3_kb_matches(s) ==
  [kb_matches |-> match_knowledge_base(s.fs, s.scores, s.metrics)] @@ s

\* lines 652-680
section_4_all_matches(s) ==
  [all_matches |->
     IF s.kb_matches # <<>> THEN rank_matches(s.kb_matches, s.q) ELSE <<>>] @@ s

\* lines 683-730: best_kb_matches before the answer markers are written
section_4_selected(s) ==
  [selected |->
     IF s.kb_matches # <<>> THEN select_best_matches(s.all_matches, s.q)
     ELSE <<>>] @@ s

\* lines 672-673 and 731-735: the assignments of section 4 and the selected
\* matches after them
section_4_best_kb_matches(s) ==
  [ best_kb_matches |->
      Eager([i \in DOMAIN s.selected |->
         SetItem(s.selected[i], "content", marked_content(s.selected[i]))]),
    writes |->
      [i \in DOMAIN s.all_matches |-> relevance_write(s.all_matches[i])]
      \o [i \in DOMAIN s.selected |-> content_write(s.selected[i])] ] @@ s

\* line 738
section_5_symptom_advice(s) ==
  [symptom_advice |->
     master_generate_advice(s.defs, s.symptoms, s.original_question, s.q,
                            s.metrics)] @@ s

\* lines 740-750
section_5_merge(s) ==
  [answers |-> merge_answers(s.best_kb_matches, s.symptom_advice)] @@ s

section_6_metrics_with_debug(s) ==
  [s EXCEPT !.answers =
     @ \o relevant_metric_alerts(@, s.symptoms, s.metrics)
       \o (IF Get(s.metrics, "debug_mode", FALSE)
           THEN << [ type |-> "debug_info",
                     content |-> "DEBUG: Search depth "
                                 \o Get(s.metrics, "search_depth", "Standard"),
                     category |-> "Debug",
                     confidence |-> "high",
                     priority |-> "LOW" ] >>
           ELSE <<>>)]

\* lines 753-764
section_6_metrics(s) ==
  [s EXCEPT !.answers = @ \o relevant_metric_alerts(@, s.symptoms, s.metrics)]

\* lines 767-787
section_7_preventive(s) ==
  [s EXCEPT !.answers =
     @ \o preventive_answers(@, s.symptoms, s.original_question)]

\* lines 790-794
section_8_fallback(s) ==
  [fused |-> weak_result_fallback(s.answers, s.symptom_advice)] @@ s

\* line 848
pruning(s) ==
  [pruned |->
     filter_irrelevant_answers(s.fused, s.q, SymptomOrder(s.defs), s.symptoms)]
  @@ s

\* lines 851-860
section_9_sort(s) == [ranked |-> final_sort(s.pruned)] @@ s

\* lines 862-870
section_9_deduplicate(s) == [unique |-> deduplicate(s.ranked)] @@ s

\* the locals of a call that ran to line 872
locals_at_return(fs, defs, question_, metrics) ==
  section_9_deduplicate(section_9_sort(pruning(section_8_fallback(
    section_7_preventive(section_6_metrics(section_5_merge(
      section_5_symptom_advice(section_4_best_kb_matches(section_4_selected(
        section_4_all_matches(section_3_kb_matches(section_3_scores(
          section_2_symptoms(section_1_emergency(
            locals_at_entry(fs, defs, question_, metrics))))))))))))))))

\* what a call leaves: answers is the list returned, writes the assignments
\* made to dicts during the call, and the other fields are the values of the
\* local variables of the same name (none of them assigned when the call
\* returns at line 584); before_fallback is the value of answers when step 8
\* starts
outcome(s) ==
  IF ~IsNone(s.emergency)
  THEN [ answers |-> short_circuit(s.emergency, truncate(s.unique)),
         writes |-> <<>>, q |-> s.q,
         emergency |-> TRUE, symptoms |-> <<>>, scores |-> <<>>,
         kb_matches |-> <<>>, all_matches |-> <<>>,
         best_kb_matches |-> <<>>, symptom_advice |-> <<>>,
         before_fallback |-> <<>>,
         fused |-> <<>>, pruned |-> <<>>, ranked |-> <<>>, unique |-> <<>> ]
  ELSE [ answers |-> short_circuit(s.emergency, truncate(s.unique)),
         writes |-> s.writes, q |-> s.q,
         emergency |-> FALSE, symptoms |-> s.symptoms, scores |-> s.scores,
         kb_matches |-> s.kb_matches, all_matches |-> s.all_matches,
         best_kb_matches |-> s.best_kb_matches,
         symptom_advice |-> s.symptom_advice,
         before_fallback |-> s.answers,
         fused |-> s.fused, pruned |-> s.pruned, ranked |-> s.ranked,
         unique |-> s.unique ]

\* engine.py: enhanced_reason
enhanced_reason(fs, defs, question_, metrics) ==
  outcome(locals_at_return(fs, defs, question_, metrics))

\* engine.py: reason
reason(fs, defs, question_, metrics) == enhanced_reason(fs, defs, question_, metrics)

(***************************************************************************)
(* Objects that outlive a call.  An assignment d[key] = value made through *)
(* a reference to an entry of the knowledge base or to an advice template  *)
(* changes that entry or template; one made to a dict of the call does not.*)
(***************************************************************************)
\* the advice template of symptom i of the registry, as an object
TemplateObject(i) == <<"template", "advice", i, 0>>

RECURSIVE write_all(_, _, _)
\* the dict d, which is object o, after the assignments of writes in order
write_all(d, o, writes) ==
  IF writes = <<>> THEN d
  ELSE LET w == Head(writes)
           d2 == IF w.obj = o THEN SetItem(d, w.key, w.value) ELSE d
       IN  write_all(d2, o, Tail(writes))

\* the knowledge base after a call that made the assignments writes
facts_after(fs, writes) ==
  [ci \in DOMAIN fs |->
     IF ~WellFormedCategory(fs[ci]) THEN fs[ci]
     ELSE [k \in DOMAIN fs[ci] |->
             IF k # "questions" THEN fs[ci][k]
             ELSE [qi \in DOMAIN fs[ci].questions |->
                     IF ~isinstance_dict(fs[ci].questions[qi])
                     THEN fs[ci].questions[qi]
                     ELSE write_all(fs[ci].questions[qi], EntryObject(ci, qi), writes)]]]

\* the symptom registry after a call that made the assignments writes
registry_after(defs, writes) ==
  [i \in DOMAIN defs |->
     IF IsNone(defs[i].expert_advice) THEN defs[i]
     ELSE [defs[i] EXCEPT !.expert_advice = write_all(@, TemplateObject(i), writes)]]

(***************************************************************************)
(* Inputs                                                                  *)
(***************************************************************************)
SlowAnswer ==
  "A slow computer is most commonly caused by too many startup programs. Disable them in Task Manager."

PowerAnswer ==
  "Check the power adapter and the battery first. Hold the power button for 30 seconds, then try a different charger. If there is still no power, the motherboard needs service by a technician."

SpillAnswer ==
  "IMMEDIATELY shut down the laptop, unplug power and remove battery. Let dry completely before use."

ReceiverAnswer ==
  "Unplug the receiver, wait ten seconds and plug it into another port. Replace the batteries, then pair the device again from the settings page of the vendor tool."

\* knowledge bases: a list of categories, each with a list of pairs
KnowledgeBasePool ==
  << \* 1: well-formed, with a hazard-flavored entry and a repeated answer
     << [ category |-> "Audio",
          questions |-> <<
            [ question |-> "How to fix no sound in headphones?",
              answer |-> "Select the headphones as the playback device, then update the audio driver." ] >> ],
        [ category |-> "Performance",
          questions |-> <<
            [ question |-> "Why is my computer slow?", answer |-> SlowAnswer ],
            [ question |-> "pc is slow", answer |-> SlowAnswer ] >> ],
        [ category |-> "Liquid Damage",
          questions |-> <<
            [ question |-> "What to do after a water spill on the keyboard?",
              answer |-> SpillAnswer ] >> ],
        [ category |-> "Power",
          questions |-> <<
            [ question |-> "Laptop wont turn on", answer |-> PowerAnswer ] >> ],
        [ category |-> "Input Devices",
          questions |-> <<
            [ question |-> "How to clean keyboard keys?",
              answer |-> "Use compressed air to clean the keyboard, then wipe the keys." ] >> ] >>,
     \* 2: malformed categories and pairs, a pair without answer, a category
     \*    without label
     << NotADict,
        [ category |-> "Broken" ],
        [ questions |-> <<
            [ question |-> "Computer is hot and slow" ],
            NotADict,
            [ answer |-> "An answer without question." ] >> ],
        [ category |-> "Fire Safety",
          questions |-> <<
            [ question |-> "Is the firewall slow?",
              answer |-> "In case of fire or water damage unplug power at once." ] >> ] >>,
     \* 3: a hazard-flavored entry that is the only candidate of a query about
     \*    slowness, a long specific answer about a peripheral, and a
     \*    hazard-flavored answer to a question about water that mentions fire
     << [ category |-> "Performance",
          questions |-> <<
            [ question |-> "Why is my computer slow?",
              answer |-> "Remove battery and dry thoroughly before cleaning the fans." ] >> ],
        [ category |-> "Peripheral",
          questions |-> <<
            [ question |-> "Wireless mouse is sluggish",
              answer |-> ReceiverAnswer ] >> ],
        [ category |-> "Liquid Damage",
          questions |-> <<
            [ question |-> "Water spill on keyboard",
              answer |-> "Unplug power and keep away from fire." ] >> ] >>,
     \* 4: an entry whose question is only punctuation
     << [ category |-> "General",
          questions |-> <<
            [ question |-> "?", answer |-> "Please describe the problem." ],
            [ question |-> "Why is my computer slow?", answer |-> SlowAnswer ] >> ] >>,
     \* 5: empty
     << >> >>

NumKnowledgeBases == 4

KnowledgeBases ==
  {KnowledgeBasePool[i] : i \in 1..Min(NumKnowledgeBases, Len(KnowledgeBasePool))}

QueryPool ==
  << "there's smoke coming from my pc",
     "my laptop wont turn on, completely dead",
     "computer is slow",
     "what to do laptop wont turn on",
     "headphones not working",
     "wireless mouse is sluggish",
     "wont turn on hot clicking battery swollen wont boot",
     "i want to plug it in again",
     "why is my computer burning hot",
     "laptop fired up then shuts itself off",
     "pc is hot and slow and keeps crashing",
     "Fire in my laptop!",
     "pc is slow",
     "water spill on keyboard not working",
     "is the firewall slow",
     "",
     "update failed",
     "pc makes sparks",
     "How to clean keyboard keys?",
     "my screen is flickering",
     "laptop is burning hot",
     "hello there",
     "please fix 'Laptop wont turn on' now",
     "no power and no sound",
     "What to do after a water spill on the keyboard?",
     "disk full and fan noise",
     "?",
     "burning smell from laptop",
     "mouse not working",
     "game lag and high cpu",
     "is the pc slow",
     "my pc is dead, no power",
     "keyboard keys stuck",
     "laptop wont turn on after water damage" >>

NumQueries == 32

Queries == {QueryPool[i] : i \in 1..Min(NumQueries, Len(QueryPool))}

MetricsPool ==
  << None,
     [ cpu_temp |-> 95, gpu_temp |-> 90, memory_usage |-> 95 ],
     [ search_depth |-> "Standard", debug_mode |-> FALSE ],
     [ cpu_temp |-> 92, gpu_temp |-> 88, memory_usage |-> 93,
       search_depth |-> "Basic" ],
     [ cpu_temp |-> 95, gpu_temp |-> 90, memory_usage |-> 95,
       search_depth |-> "Deep", debug_mode |-> TRUE,
       user_selected_category |-> "Hardware" ],
     << >> >>

NumMetrics == 5

MetricsValues == {MetricsPool[i] : i \in 1..Min(NumMetrics, Len(MetricsPool))}

\* arguments of the direct calls of the two scoring functions
TextPool ==
  << "", "slow", "my pc is slow", "is my pc slow", "the a an",
     "headphones not working", "how to fix no sound in headphones?",
     "slow slow pc", "pc", "laptop wont turn on", "fix the laptop",
     "no sound", "wont turn on laptop" >>

NumTexts == 12

Texts == {TextPool[i] : i \in 1..Min(NumTexts, Len(TextPool))}

(***************************************************************************)
(* State machine                                                           *)
(***************************************************************************)
NoTrace ==
  [ answers |-> <<>>, writes |-> <<>>, q |-> "", emergency |-> FALSE,
    symptoms |-> <<>>, scores |-> <<>>, kb_matches |-> <<>>,
    all_matches |-> <<>>, best_kb_matches |-> <<>>, symptom_advice |-> <<>>,
    before_fallback |-> <<>>,
    fused |-> <<>>, pruned |-> <<>>, ranked |-> <<>>, unique |-> <<>> ]

Init ==
  /\ facts \in KnowledgeBases
  /\ SYMPTOM_DEFINITIONS = InitialSymptomDefinitions
  /\ question = ""
  /\ system_metrics = None
  /\ result = <<>>
  /\ trace = NoTrace
  /\ repeated = FALSE
  /\ previous_result = <<>>
  /\ score_call = None

\* reason() on a knowledge base and the registry as loaded, tabulated: the
\* value of a call is a function of its arguments, so it is computed once
ReasonTable ==
  Eager([fs \in KnowledgeBases |->
    Eager([q \in Queries |->
      Eager([m \in MetricsValues |->
        reason(fs, InitialSymptomDefinitions, q, m)])])])

\* the value of reason(fs, defs, q, m)
Call(fs, defs, q, m) ==
  IF fs \in KnowledgeBases /\ defs = InitialSymptomDefinitions
  THEN ReasonTable[fs][q][m]
  ELSE reason(fs, defs, q, m)

\* a call reason(facts, q, m)
Reason(q, m) ==
  LET r == Call(facts, SYMPTOM_DEFINITIONS, q, m)
      again == result # <<>> /\ q = question /\ m = system_metrics
  IN  /\ question' = q
      /\ repeated' = again
      /\ previous_result' = IF again THEN result ELSE <<>>
      /\ system_metrics' = m
      /\ result' = Eager([i \in DOMAIN r.answers |-> Public(r.answers[i])])
      /\ trace' = r
      /\ facts' = facts_after(facts, r.writes)
      /\ SYMPTOM_DEFINITIONS' = registry_after(SYMPTOM_DEFINITIONS, r.writes)
      /\ UNCHANGED score_call

Next == \E q \in Queries, m \in MetricsValues : Reason(q, m)

Spec == Init /\ [][Next]_vars

\* a direct call calculate_similarity(a, b)
Similarity(a, b) ==
  /\ score_call' = [ fn |-> "calculate_similarity", a |-> a, b |-> b,
                     value |-> calculate_similarity(a, b) ]
  /\ UNCHANGED <<facts, SYMPTOM_DEFINITIONS, question, system_metrics, result,
                 trace, repeated, previous_result>>

\* a direct call calculate_keyword_match(a, b)
KeywordMatch(a, b) ==
  /\ score_call' = [ fn |-> "calculate_keyword_match", a |-> a, b |-> b,
                     value |-> calculate_keyword_match(a, b) ]
  /\ UNCHANGED <<facts, SYMPTOM_DEFINITIONS, question, system_metrics, result,
                 trace, repeated, previous_result>>

NextScore ==
  \E a \in Texts, b \in Texts : Similarity(a, b) \/ KeywordMatch(a, b)

SpecScore == Init /\ [][NextScore]_vars

(***************************************************************************)
(* Properties                                                              *)
(***************************************************************************)
\* some call has returned
Called == result # <<>>

\* the literal p occurs in text as whole words: the character before it and
\* the character after it, if any, are no letter, digit or underscore
OccursAsWholeWords(text, p) ==
  LET t == lower(text)
  IN  \E i \in 1..(Len(t) - Len(p) + 1) :
        /\ SubSeq(t, i, i + Len(p) - 1) = p
        /\ (i = 1 \/ SubSeq(t, i - 1, i - 1) \notin WordChars)
        /\ (i + Len(p) - 1 = Len(t) \/ SubSeq(t, i + Len(p), i + Len(p)) \notin WordChars)

HazardAtWordBoundary(text) ==
  \E k \in DOMAIN emergency_patterns : OccursAsWholeWords(text, emergency_patterns[k])

HazardInsideText(text) ==
  \E k \in DOMAIN emergency_patterns : Contains(lower(text), emergency_patterns[k])

HasPrefix(text, p) == Len(text) >= Len(p) /\ SubSeq(text, 1, Len(p)) = p

TypesOf(answers) == {answers[i].type : i \in DOMAIN answers}

\* C1: when a hazard pattern matches the query at word boundaries, the
\* result is exactly one answer, of type emergency, priority CRITICAL and
\* confidence perfect, whose content begins with the safety-emergency
\* header, whatever the knowledge base and the metrics are
C1_EmergencyIsTheWholeResult ==
  (Called /\ HazardAtWordBoundary(question)) =>
     /\ Len(result) = 1
     /\ result[1].type = "emergency"
     /\ result[1].priority = "CRITICAL"
     /\ result[1].confidence = "perfect"
     /\ HasPrefix(result[1].content, EmergencyHeader)

\* a hazard query was answered while the knowledge base holds entries and
\* the metrics exceed the alert thresholds
C1_Witness ==
  /\ Called
  /\ HazardAtWordBoundary(question)
  /\ result[1].type = "emergency"
  /\ facts # <<>>
  /\ ~IsNone(system_metrics)
  /\ Get(system_metrics, "cpu_temp", 0) > 92

\* C2: a query in which hazard words occur only inside longer words, none
\* matching at word boundaries, never gets an answer of type emergency
C2_NoEmergencyInsideLongerWords ==
  (Called /\ HazardInsideText(question) /\ ~HazardAtWordBoundary(question)) =>
     "emergency" \notin TypesOf(result)

\* a query with "fire" inside a longer word was answered
C2_Witness ==
  /\ Called
  /\ Contains(lower(question), "fire")
  /\ ~HazardAtWordBoundary(question)
  /\ "emergency" \notin TypesOf(result)

\* C3: the returned list has at most 4 answers
C3_AtMostFourAnswers == Len(result) <= 4

\* more than four distinct answers were fused and four were returned
C3_Witness == Len(trace.unique) > 4 /\ Len(result) = 4

\* the key that identifies an answer: its type and the lower-cased first
\* 150 characters of its content
AnswerKey(a) == <<a.type, lower(SubSeq(a.content, 1, Min(150, Len(a.content))))>>

\* the positions of the ranked list that hold the first answer of their key
FirstOfKey(ranked) ==
  {p \in DOMAIN ranked :
     \A p2 \in 1..(p - 1) : AnswerKey(ranked[p2]) # AnswerKey(ranked[p])}

\* the n-th smallest element of a set of numbers
NthOf(S, n) == CHOOSE p \in S : Cardinality({p2 \in S : p2 < p}) = n - 1

RankKey(a) ==
  << priority_order(a.priority),
     Get(a, "relevance_score", 0),
     confidence_order(a.confidence),
     Get(a, "match_score", 0) >>

\* C5: consecutive answers of a result are non-increasing in the key
\* (priority tier, relevance_score, confidence tier, match_score)
C5_ResultIsRanked ==
  \A i \in 1..(Len(result) - 1) :
    ~LexLess(RankKey(result[i]), RankKey(result[i + 1]))

\* a result whose fused list was not in ranked order: an answer of higher
\* priority but lower relevance was fused after one it now precedes
C5_Witness ==
  /\ Called
  /\ \E i \in 1..(Len(result) - 1) :
       /\ priority_order(result[i].priority) > priority_order(result[i + 1].priority)
       /\ Get(result[i], "relevance_score", 0) < Get(result[i + 1], "relevance_score", 0)
  /\ trace.pruned # trace.ranked

\* C6: a call with the arguments of the call before it, on the knowledge
\* base and registry that call left behind, returns the same ordered list
C6_Idempotent == repeated => result = previous_result

\* a call that put answer markers into knowledge matches was repeated
C6_Witness ==
  /\ repeated
  /\ result = previous_result
  /\ \E i \in DOMAIN result :
       result[i].type = "kb_match" /\ HasPrefix(result[i].content, "* Direct answer:")

\* C7: a call leaves the knowledge base and the symptom registry, advice
\* templates included, as they were
C7_KnowledgeAndRegistryUnchanged ==
  [][facts' = facts /\ SYMPTOM_DEFINITIONS' = SYMPTOM_DEFINITIONS]_vars

\* the well-formed entries of a knowledge base
EntriesOf(fs) ==
  UNION {Range(fs[ci].questions) : ci \in {c \in DOMAIN fs : WellFormedCategory(fs[c])}}

\* a call returned a marked knowledge answer and a copy of an advice
\* template while the entry and the template still hold the unmarked text
C7_Witness ==
  /\ Called
  /\ \E i \in DOMAIN result :
       /\ result[i].type = "kb_match"
       /\ \E qa \in {e \in EntriesOf(facts) : WellFormedPair(e) /\ "answer" \in DOMAIN e} :
            /\ qa.question = result[i].source_question
            /\ result[i].content = "* Direct answer:\n" \o qa.answer
  /\ \E i \in DOMAIN result, d \in DOMAIN SYMPTOM_DEFINITIONS :
       /\ result[i].type = "expert_diagnosis"
       /\ ~IsNone(SYMPTOM_DEFINITIONS[d].expert_advice)
       /\ result[i] = SYMPTOM_DEFINITIONS[d].expert_advice

SpecTypes ==
  {"emergency", "kb_match", "expert_diagnosis", "metric_alert", "preventive",
   "need_more_info"}

\* C8 as stated: every answer of every result has a type among emergency,
\* kb_match, expert_diagnosis, metric_alert, preventive and need_more_info
C8_TypeInSpecSet == TypesOf(result) \subseteq SpecTypes

\* C8 amended: every answer has a type among those six or expert_generic,
\* and expert_generic is the type of exactly the generic diagnostic answer
C8_TypeInSpecSetOrGeneric ==
  /\ TypesOf(result) \subseteq SpecTypes \cup {"expert_generic"}
  /\ \A i \in DOMAIN result :
       result[i].type = "expert_generic"
         <=> Get(result[i], "category", "") = "General Diagnosis"

\* the generic diagnostic answer was returned
C8_Witness ==
  \E i \in DOMAIN result :
    /\ result[i].type = "expert_generic"
    /\ HasPrefix(result[i].content, "Based on your description")

\* the fraction f is a number of [0,1]
InUnit(f) == f[2] > 0 /\ 0 <= f[1] /\ f[1] <= f[2]

\* C9: similarity and keyword_match of every query and entry question, and
\* match_score and relevance_score of every candidate, lie in [0,1]
C9_ScoresInUnitInterval ==
  /\ \A k \in DOMAIN trace.scores :
       /\ InUnit(trace.scores[k].sc.similarity)
       /\ InUnit(trace.scores[k].sc.keyword_match)
  /\ \A i \in DOMAIN trace.all_matches :
       /\ trace.all_matches[i].match_score \in 0..Scale
       /\ trace.all_matches[i].relevance_score \in 0..Scale
  /\ \A i \in DOMAIN result :
       /\ Get(result[i], "match_score", 0) \in 0..Scale
       /\ Get(result[i], "relevance_score", 0) \in 0..Scale

\* a call had a hazard candidate whose penalized score fell below 0 and
\* whose relevance_score is 0
C9_Witness ==
  \E i \in DOMAIN trace.all_matches :
    /\ trace.all_matches[i].is_emergency_content
    /\ adjusted_relevance(trace.all_matches[i], trace.q) < 0
    /\ trace.all_matches[i].relevance_score = 0

\* the fractions f and g are the same number
FracEq(f, g) == f[1] * g[2] = g[1] * f[2]

\* the value of the scoring function fn on (a, b)
ScoreOf(fn, a, b) ==
  IF fn = "calculate_similarity" THEN calculate_similarity(a, b)
  ELSE calculate_keyword_match(a, b)

\* C10 as stated: calculate_similarity and calculate_keyword_match both
\* return the same score when their arguments are swapped
C10_BothSymmetric ==
  ~IsNone(score_call) =>
     FracEq(score_call.value, ScoreOf(score_call.fn, score_call.b, score_call.a))

\* the number of keywords of a text: its distinct words longer than two
\* characters that are no stop words
KeywordCount(t) ==
  Cardinality({w \in WordSet(t) : w \notin StopWords /\ Len(w) > 2})

\* C10 amended: calculate_similarity is symmetric; calculate_keyword_match
\* is symmetric up to its denominator, the keyword count of its first
\* argument: match(a,b) * keywords(a) = match(b,a) * keywords(b)
C10_SymmetricUpToDenominator ==
  ~IsNone(score_call) =>
     LET swapped == ScoreOf(score_call.fn, score_call.b, score_call.a)
     IN  IF score_call.fn = "calculate_similarity"
         THEN FracEq(score_call.value, swapped)
         ELSE FracEq(<<score_call.value[1] * KeywordCount(score_call.a),
                       score_call.value[2]>>,
                     <<swapped[1] * KeywordCount(score_call.b), swapped[2]>>)

\* two texts that share a keyword and have different keyword counts were
\* scored by calculate_keyword_match, and the swapped call scores otherwise
C10_Witness ==
  /\ ~IsNone(score_call)
  /\ score_call.fn = "calculate_keyword_match"
  /\ score_call.value[1] > 0
  /\ KeywordCount(score_call.a) # KeywordCount(score_call.b)
  /\ ~FracEq(score_call.value,
             calculate_keyword_match(score_call.b, score_call.a))

\* the well-formed pairs of a knowledge base
PairsOf(fs) == {e \in EntriesOf(fs) : WellFormedPair(e)}

\* C11: for the query "headphones not working" and a knowledge base with an
\* entry asking "How to fix no sound in headphones?", the entry is a match
\* candidate and the result holds a kb_match answer for it with confidence
\* perfect or high
C11_HeadphonesEntryIsMatched ==
  ( /\ Called
    /\ question = "headphones not working"
    /\ \E e \in PairsOf(facts) : e.question = "How to fix no sound in headphones?" )
  => /\ \E i \in DOMAIN trace.kb_matches :
          trace.kb_matches[i].source_question = "How to fix no sound in headphones?"
     /\ \E i \in DOMAIN result :
          /\ result[i].type = "kb_match"
          /\ result[i].source_question = "How to fix no sound in headphones?"
          /\ result[i].confidence \in {"perfect", "high"}

HazardVocabulary ==
  <<"water", "liquid", "spill", "wet", "smoke", "fire", "spark", "burning">>

\* C12: when the query contains no hazard vocabulary, no kb_match answer of
\* the result has hazard-response phrasing in its text
C12_NoHazardAnswerForNormalQuery ==
  (Called /\ ~ContainsAny(lower(question), HazardVocabulary)) =>
     \A i \in DOMAIN result :
       result[i].type = "kb_match" => ~is_emergency_content(result[i].content)

\* the most salient detected symptom of the last call: the first true
\* non-emergency flag in registry order
MainSymptom ==
  LET detected(i) ==
        /\ SYMPTOM_DEFINITIONS[i].name # "emergency"
        /\ trace.symptoms[SYMPTOM_DEFINITIONS[i].name]
      first == {i \in DOMAIN SYMPTOM_DEFINITIONS :
                  detected(i) /\ \A j \in 1..(i - 1) : ~detected(j)}
  IN  IF first = {} THEN "None"
      ELSE SYMPTOM_DEFINITIONS[CHOOSE i \in first : TRUE].name

\* the last call fired no emergency and its most salient symptom is no_power
PowerFailureCall == Called /\ ~trace.emergency /\ MainSymptom = "no_power"

\* the advice of the registry for no_power
NoPowerAdvice ==
  SYMPTOM_DEFINITIONS[CHOOSE d \in DOMAIN SYMPTOM_DEFINITIONS :
                        SYMPTOM_DEFINITIONS[d].name = "no_power"].expert_advice

\* C13 as stated: when no emergency fires and the most salient symptom is
\* no_power, the result includes the no_power diagnosis, of priority HIGH
\* and with five troubleshooting steps
C13_NoPowerAdviceInResult ==
  PowerFailureCall =>
     \E i \in DOMAIN result :
       /\ result[i] = NoPowerAdvice
       /\ result[i].type = "expert_diagnosis"
       /\ result[i].priority = "HIGH"
       /\ Len(result[i].troubleshooting_steps) = 5

\* C13 amended: in that case the ranked, deduplicated answers include the
\* no_power diagnosis, of priority HIGH and with five steps, and the result
\* includes it exactly when fewer than four answers rank ahead of it
C13_NoPowerAdviceUnlessOutranked ==
  PowerFailureCall =>
     \E i \in DOMAIN trace.unique :
       /\ Public(trace.unique[i]) = NoPowerAdvice
       /\ NoPowerAdvice.type = "expert_diagnosis"
       /\ NoPowerAdvice.priority = "HIGH"
       /\ Len(NoPowerAdvice.troubleshooting_steps) = 5
       /\ (\E j \in DOMAIN result : result[j] = NoPowerAdvice) <=> i <= MaxAnswers

\* the no_power diagnosis was returned next to a knowledge answer
C13_Witness ==
  /\ PowerFailureCall
  /\ "kb_match" \in TypesOf(result)
  /\ \E i \in DOMAIN result : result[i] = NoPowerAdvice

\* the answer is one that a power failure makes irrelevant
BesideThePoint(a) ==
  \/ Get(a, "category", "") \in {"Peripheral", "Audio", "Input Devices"}
  \/ a.type = "preventive"

\* C14: when no emergency fires and the most salient symptom is no_power,
\* the result has no answer of category Peripheral, Audio or Input Devices
\* and no preventive answer
C14_PowerFailureResultIsPruned ==
  PowerFailureCall => \A i \in DOMAIN result : ~BesideThePoint(result[i])

\* such an answer was among the fused answers of a power-failure call
C14_Witness ==
  /\ PowerFailureCall
  /\ \E i \in DOMAIN trace.fused : BesideThePoint(trace.fused[i])
  /\ \A i \in DOMAIN result : ~BesideThePoint(result[i])

\* a category that is no mapping or lacks the question list
MalformedCategory(c) == ~isinstance_dict(c) \/ "questions" \notin DOMAIN c

\* a pair that is no mapping or lacks the question field
MalformedPair(qa) == ~isinstance_dict(qa) \/ "question" \notin DOMAIN qa

\* the knowledge base without its malformed categories and pairs
WithoutMalformed(fs) ==
  LET kept == SelectSeqBy(fs, [ci \in DOMAIN fs |-> ~MalformedCategory(fs[ci])])
  IN  [ci \in DOMAIN kept |->
         [kept[ci] EXCEPT !.questions =
            SelectSeqBy(@, [qi \in DOMAIN @ |-> ~MalformedPair(@[qi])])]]

\* the list a call of reason returns
Returned(fs, q, m) ==
  LET r == Call(fs, SYMPTOM_DEFINITIONS, q, m)
  IN  [i \in DOMAIN r.answers |-> Public(r.answers[i])]

\* C15: the result is the one returned for the same knowledge base with
\* the malformed categories and pairs removed
C15_MalformedDataIsSkipped ==
  Called => result = Returned(WithoutMalformed(facts), question, system_metrics)

\* a knowledge base with malformed categories and pairs gave a knowledge
\* answer
C15_Witness ==
  /\ \E ci \in DOMAIN facts : MalformedCategory(facts[ci])
  /\ \E ci \in DOMAIN facts :
       /\ ~MalformedCategory(facts[ci])
       /\ \E qi \in DOMAIN facts[ci].questions : MalformedPair(facts[ci].questions[qi])
  /\ "kb_match" \in TypesOf(result)
  /\ result = Returned(WithoutMalformed(facts), question, system_metrics)

\* some call has run, whatever it returned
HasRun == trace # NoTrace

\* C16: the result of a call is never empty; when nothing is left after
\* pruning and deduplication it is exactly one need_more_info answer, and
\* a need_more_info answer is never returned next to another answer
C16_NeverEmpty ==
  HasRun =>
     /\ result # <<>>
     /\ (~trace.emergency /\ trace.unique = <<>>) =>
           Len(result) = 1 /\ result[1].type = "need_more_info"
     /\ "need_more_info" \in TypesOf(result) => Len(result) = 1

\* pruning removed every fused answer and the call asked for more
\* information
C16_Witness ==
  /\ HasRun
  /\ ~trace.emergency
  /\ trace.fused # <<>>
  /\ trace.unique = <<>>
  /\ Len(result) = 1
  /\ result[1].type = "need_more_info"
  /\ HasPrefix(result[1].content, "I can definitely help you!")

\* the metrics hold the reading key with a value above limit
Exceeds(key, limit) ==
  /\ ~IsNone(system_metrics)
  /\ key \in DOMAIN system_metrics
  /\ system_metrics[key] > limit

\* the reading behind the alert a is above its threshold
ReadingExceeds(a) ==
  \/ Contains(a.content, "CPU temperature") /\ Exceeds("cpu_temp", 92)
  \/ Contains(a.content, "GPU Overheating") /\ Exceeds("gpu_temp", 88)
  \/ Contains(a.content, "RAM nearly full") /\ Exceeds("memory_usage", 92)

\* C17: a metric_alert answer is in the result only if metrics were given,
\* its reading exceeds its threshold and overheating or slow was detected;
\* the answer list is never empty when the metrics step starts
C17_AlertsOnlyWhenTied ==
  HasRun =>
     /\ \A i \in DOMAIN result :
          result[i].type = "metric_alert" =>
             /\ ~IsNone(system_metrics) /\ DOMAIN system_metrics # {}
             /\ ReadingExceeds(result[i])
             /\ trace.symptoms["overheating"] \/ trace.symptoms["slow"]
     /\ ~trace.emergency =>
          (trace.best_kb_matches # <<>> \/ trace.symptom_advice # <<>>)

\* an alert was returned
C17_Witness ==
  /\ HasRun
  /\ \E i \in DOMAIN result :
       /\ result[i].type = "metric_alert"
       /\ ReadingExceeds(result[i])
       /\ trace.symptoms["overheating"]

\* the keys the user interface adds to the metrics
HintKeys == {"search_depth", "debug_mode", "user_selected_category"}

\* the readings of a metrics argument: its keys other than the hints,
\* none for an absent argument
Readings(m) ==
  IF IsNone(m) THEN <<>> ELSE [k \in DOMAIN m \ HintKeys |-> m[k]]

\* metrics arguments that differ from the ones of the call in hints only
SameReadings ==
  {m \in MetricsValues : m # system_metrics
                         /\ Readings(m) = Readings(system_metrics)}

\* C18: a call whose metrics differ only in the hint keys returns the
\* same result
C18_HintsDoNotInfluence ==
  Called => \A m \in SameReadings : result = Returned(facts, question, m)

\* a call with readings and hints returned an alert, and the same readings
\* without the hints are an argument too
C18_Witness ==
  /\ Called
  /\ "metric_alert" \in TypesOf(result)
  /\ ~IsNone(system_metrics)
  /\ "debug_mode" \in DOMAIN system_metrics
  /\ \E m \in SameReadings : DOMAIN m \cap HintKeys = {}

\* the positions (category, pair) of the well-formed entries of fs
WellFormedPositions(fs) ==
  UNION {{<<ci, qi>> : qi \in {x \in DOMAIN fs[ci].questions :
                                  WellFormedPair(fs[ci].questions[x])}} :
         ci \in {c \in DOMAIN fs : WellFormedCategory(fs[c])}}

\* the entry scored at index k of the trace, and its lower-cased question
ScoredEntry(k) == facts[trace.scores[k].ci].questions[trace.scores[k].qi]

ScoredQuestion(k) == lower(ScoredEntry(k).question)

\* max(similarity, keyword_match) of the scored entry k, 1 when
\* exact_or_quoted holds
CombinedScore(k) ==
  IF trace.scores[k].sc.exact_or_quoted THEN <<1, 1>>
  ELSE FracMax(calculate_similarity(trace.q, ScoredQuestion(k)),
               calculate_keyword_match(trace.q, ScoredQuestion(k)))

ByCombinedScore(k) == FracGT(CombinedScore(k), 2, 10)

ByKeywordMatch(k) ==
  FracGT(calculate_keyword_match(trace.q, ScoredQuestion(k)), 3, 10)

BySharedWords(k) ==
  Cardinality(WordSet(trace.q) \cap WordSet(ScoredQuestion(k))) >= 2

ByExactOrQuoted(k) == trace.scores[k].sc.exact_or_quoted

\* the scored entries that satisfy the candidate rule
Candidates ==
  {k \in DOMAIN trace.scores :
     ByCombinedScore(k) \/ ByKeywordMatch(k) \/ BySharedWords(k)
       \/ ByExactOrQuoted(k)}

\* C19: every well-formed entry is scored, its combined score is the larger
\* of similarity and keyword match or 1 when exact_or_quoted holds, and the
\* match candidates are exactly the entries with combined_score > 0.2 or
\* keyword_match > 0.3 or at least 2 shared words or exact_or_quoted, in
\* knowledge-base order
C19_CandidateRule ==
  (HasRun /\ ~trace.emergency) =>
     /\ Len(trace.scores) = Cardinality(WellFormedPositions(facts))
     /\ {<<trace.scores[k].ci, trace.scores[k].qi>> : k \in DOMAIN trace.scores}
          = WellFormedPositions(facts)
     /\ \A k \in DOMAIN trace.scores :
          FracEq(trace.scores[k].sc.combined_score, CombinedScore(k))
     /\ Len(trace.kb_matches) = Cardinality(Candidates)
     /\ \A k \in Candidates :
          LET i == Cardinality({j \in Candidates : j <= k})
          IN  /\ trace.kb_matches[i].source_question = ScoredEntry(k).question
              /\ trace.kb_matches[i].category
                   = Get(facts[trace.scores[k].ci], "category", "General")

\* one entry is a candidate by its shared words only, and another entry is
\* not a candidate
C19_Witness ==
  /\ HasRun /\ ~trace.emergency
  /\ \E k \in Candidates :
       /\ BySharedWords(k)
       /\ ~ByCombinedScore(k) /\ ~ByKeywordMatch(k) /\ ~ByExactOrQuoted(k)
  /\ \E k \in DOMAIN trace.scores : k \notin Candidates

\* the match candidate made of the scored entry k
CandidateOf(k) == trace.kb_matches[Cardinality({j \in Candidates : j <= k})]

\* C20: a candidate is perfect, with match_score 1.0, exactly when
\* exact_or_quoted holds, otherwise high exactly when combined_score > 0.5,
\* otherwise medium; no candidate is low, so no ranked match meets the
\* filter's rule for low confidence
C20_ConfidenceTiers ==
  (HasRun /\ ~trace.emergency /\ Len(trace.kb_matches) = Cardinality(Candidates)) =>
     /\ \A k \in Candidates :
          /\ CandidateOf(k).confidence = "perfect" <=> ByExactOrQuoted(k)
          /\ ByExactOrQuoted(k) => CandidateOf(k).match_score = Scale
          /\ CandidateOf(k).confidence = "high"
               <=> (~ByExactOrQuoted(k) /\ FracGT(CombinedScore(k), 5, 10))
          /\ CandidateOf(k).confidence = "medium"
               <=> (~ByExactOrQuoted(k) /\ ~FracGT(CombinedScore(k), 5, 10))
     /\ \A i \in DOMAIN trace.all_matches :
          /\ trace.all_matches[i].confidence \in {"perfect", "high", "medium"}
          /\ ~(/\ trace.all_matches[i].confidence = "low"
               /\ trace.all_matches[i].match_score * 10 < 4 * Scale)

\* a medium candidate scores below 0.4, beside a perfect one
C20_Witness ==
  /\ HasRun /\ ~trace.emergency
  /\ \E k \in Candidates :
       /\ CandidateOf(k).confidence = "medium"
       /\ CandidateOf(k).match_score * 10 < 4 * Scale
  /\ \E k \in Candidates : CandidateOf(k).confidence = "perfect"

\* the relevance of the ranked match m without the penalty: its match
\* score, raised by 0.3 for a power query and a match that mentions power,
\* at most 1
UnpenalizedRelevance(m) ==
  Min(Scale,
      m.match_score
      + (IF /\ ContainsAny(trace.q, << "won't turn on", "no power", "dead",
                                       "not powering on", "wont turn on" >>)
            /\ \/ Contains(lower(m.content), "power")
               \/ Contains(lower(m.source_question), "power")
         THEN 3000 ELSE 0))

\* the relevance written to the ranked match m shows the penalty
Penalized(m) == m.relevance_score < UnpenalizedRelevance(m)

\* C21: a ranked candidate is penalized exactly when it is hazard-flavored
\* and the query holds none of the words of the hazard/normal partition
C21_PenaltyFollowsPartition ==
  (HasRun /\ ~trace.emergency) =>
     \A i \in DOMAIN trace.all_matches :
       Penalized(trace.all_matches[i])
         <=> /\ trace.all_matches[i].is_emergency_content
             /\ ~ContainsAny(trace.q, HazardVocabulary)

\* the number of kb_match answers of the result
KnowledgeAnswers == Cardinality({i \in DOMAIN result : result[i].type = "kb_match"})

\* C22: when a match candidate exists, one or two candidates survive the
\* relevance filter, and no result holds more than two kb_match answers
C22_OneOrTwoSurvivors ==
  HasRun =>
     /\ trace.kb_matches # <<>> => Len(trace.best_kb_matches) \in {1, 2}
     /\ trace.kb_matches = <<>> => trace.best_kb_matches = <<>>
     /\ KnowledgeAnswers <= 2
     /\ KnowledgeAnswers <= Len(trace.best_kb_matches)

\* three candidates or more, two survivors, both returned
C22_Witness ==
  /\ HasRun
  /\ Len(trace.kb_matches) >= 3
  /\ Len(trace.best_kb_matches) = 2
  /\ KnowledgeAnswers = 2

\* the only candidates are hazard-flavored and the query is not: the loop
\* accepts none and one candidate survives
C22_FallbackWitness ==
  /\ HasRun /\ ~trace.emergency
  /\ trace.kb_matches # <<>>
  /\ ~ContainsAny(trace.q, HazardVocabulary)
  /\ \A i \in DOMAIN trace.kb_matches : trace.kb_matches[i].is_emergency_content
  /\ Len(trace.best_kb_matches) = 1

\* the answer a is a kb_match made of a hazard-flavored candidate whose
\* text contains word
HazardAnswerAbout(a, word) ==
  /\ a.type = "kb_match"
  /\ a.is_emergency_content
  /\ Contains(lower(a.content), word)

\* C23: without the emergency short-circuit, a query containing "water"
\* gets no kb_match of a hazard-flavored candidate whose content contains
\* "fire", and a query containing "fire" none whose content contains "water"
C23_HazardTypesAreNotCrossed ==
  (HasRun /\ ~trace.emergency) =>
     \A i \in DOMAIN result :
       /\ Contains(trace.q, "water") => ~HazardAnswerAbout(result[i], "fire")
       /\ Contains(trace.q, "fire") => ~HazardAnswerAbout(result[i], "water")

\* the registered symptom names
SymptomNames == {SYMPTOM_DEFINITIONS[i].name : i \in DOMAIN SYMPTOM_DEFINITIONS}

\* some literal pattern of the definition d is a substring of the
\* lower-cased query of the last call
PatternFound(d) ==
  \E i \in DOMAIN d.patterns : Contains(lower(trace.q), d.patterns[i])

\* the definition d has a predicate that is true on the word set of the
\* lower-cased query of the last call
PredicateTrue(d) ==
  /\ "additional_check" \in DOMAIN d
  /\ additional_check(d.additional_check, WordSet(lower(trace.q)))

\* C24: the symptoms mapping has exactly the registered names as keys, and a
\* symptom is true exactly when one of its patterns is in the query or its
\* predicate is true on the words of the query
C24_SymptomsDetected ==
  (HasRun /\ ~trace.emergency) =>
     /\ DOMAIN trace.symptoms = SymptomNames
     /\ "emergency" \in DOMAIN trace.symptoms
     /\ \A i \in DOMAIN SYMPTOM_DEFINITIONS :
          trace.symptoms[SYMPTOM_DEFINITIONS[i].name]
            <=> \/ PatternFound(SYMPTOM_DEFINITIONS[i])
                \/ PredicateTrue(SYMPTOM_DEFINITIONS[i])

\* three symptoms are true at once, one of them by its predicate alone, and
\* another symptom is false
C24_Witness ==
  /\ HasRun /\ ~trace.emergency
  /\ Cardinality({n \in DOMAIN trace.symptoms : trace.symptoms[n]}) >= 3
  /\ \E i \in DOMAIN SYMPTOM_DEFINITIONS :
       /\ trace.symptoms[SYMPTOM_DEFINITIONS[i].name]
       /\ PredicateTrue(SYMPTOM_DEFINITIONS[i])
       /\ ~PatternFound(SYMPTOM_DEFINITIONS[i])
  /\ \E n \in DOMAIN trace.symptoms : ~trace.symptoms[n]

\* the registry positions of the detected symptoms other than "emergency"
DetectedSymptoms ==
  {i \in DOMAIN SYMPTOM_DEFINITIONS :
     /\ SYMPTOM_DEFINITIONS[i].name # "emergency"
     /\ trace.symptoms[SYMPTOM_DEFINITIONS[i].name]}

\* C25: without the emergency short-circuit the symptom-driven advice is one
\* copy of the advice template of each detected non-emergency symptom, in
\* registry order, and it is the single generic diagnostic answer exactly
\* when no such symptom is detected; it is never empty and has no emergency
\* entry
C25_AdvicePerDetectedSymptom ==
  (HasRun /\ ~trace.emergency) =>
     /\ trace.symptom_advice # <<>>
     /\ \A k \in DOMAIN trace.symptom_advice :
          trace.symptom_advice[k].type # "emergency"
     /\ DetectedSymptoms # {} =>
          /\ Len(trace.symptom_advice) = Cardinality(DetectedSymptoms)
          /\ \A i \in DetectedSymptoms :
               Public(trace.symptom_advice[
                        Cardinality({j \in DetectedSymptoms : j <= i})])
                 = SYMPTOM_DEFINITIONS[i].expert_advice
     /\ DetectedSymptoms = {}
          <=> /\ Len(trace.symptom_advice) = 1
              /\ trace.symptom_advice[1].type = "expert_generic"
              /\ trace.symptom_advice[1].category = "General Diagnosis"

\* the advice of a call with three detected symptoms or more
C25_Witness ==
  /\ HasRun /\ ~trace.emergency
  /\ Cardinality(DetectedSymptoms) >= 3
  /\ Len(trace.symptom_advice) = Cardinality(DetectedSymptoms)

\* the surviving knowledge answer a is generic: it holds a hedging phrase or
\* is shorter than 150 characters
GenericKnowledgeAnswer(a) ==
  \/ ContainsAny(lower(a.content),
                 << "most commonly caused by", "usually due to",
                    "typically caused by", "this is often" >>)
  \/ Len(a.content) < 150

\* C26: when a surviving knowledge answer is generic, every symptom-driven
\* advice entry is in the fused answer list
C26_AdviceJoinsGenericAnswer ==
  ( /\ HasRun /\ ~trace.emergency
    /\ \E i \in DOMAIN trace.best_kb_matches :
         GenericKnowledgeAnswer(trace.best_kb_matches[i]) )
  => \A k \in DOMAIN trace.symptom_advice :
       \E j \in DOMAIN trace.fused : trace.fused[j] = trace.symptom_advice[k]

\* the fused answer list holds a metric alert of the given priority whose
\* text contains the given words
FusedAlert(priority, words) ==
  \E j \in DOMAIN trace.fused :
    /\ trace.fused[j].type = "metric_alert"
    /\ trace.fused[j].priority = priority
    /\ Contains(trace.fused[j].content, words)

\* C27: with metrics and a tied symptom, every alert whose threshold is
\* exceeded is in the fused answer list: the CPU and GPU alerts with
\* overheating, the memory alert with slow
C27_TiedAlertsAreAdded ==
  (HasRun /\ ~trace.emergency) =>
     /\ (trace.symptoms["overheating"] /\ Exceeds("cpu_temp", 92))
          => FusedAlert("CRITICAL", "CPU temperature")
     /\ (trace.symptoms["overheating"] /\ Exceeds("gpu_temp", 88))
          => FusedAlert("HIGH", "GPU Overheating")
     /\ (trace.symptoms["slow"] /\ Exceeds("memory_usage", 92))
          => FusedAlert("HIGH", "RAM nearly full")

\* the answer list at the start of step 8 is a single kb_match with a
\* match score below 0.4
SingleWeakMatch ==
  /\ Len(trace.before_fallback) = 1
  /\ trace.before_fallback[1].type = "kb_match"
  /\ trace.before_fallback[1].match_score * 10 < 4 * Scale

\* the answer list at the start of step 8 is a single answer that is no
\* kb_match
SingleOtherAnswer ==
  /\ Len(trace.before_fallback) = 1
  /\ trace.before_fallback[1].type # "kb_match"

\* C28: a single weak kb_match is replaced by the symptom-driven advice and
\* the result holds no kb_match; a single answer of another type is only
\* doubled, and deduplication leaves it once
C28_WeakMatchIsReplaced ==
  (HasRun /\ ~trace.emergency) =>
     /\ SingleWeakMatch =>
          /\ trace.fused = trace.symptom_advice
          /\ "kb_match" \notin TypesOf(result)
     /\ SingleOtherAnswer =>
          /\ Len(trace.fused) = 2
          /\ \A j \in DOMAIN trace.fused :
               Public(trace.fused[j]) = Public(trace.before_fallback[1])
          /\ Len(trace.unique) <= 1
          /\ \A j \in DOMAIN trace.unique :
               Public(trace.unique[j]) = Public(trace.before_fallback[1])

\* a single weak kb_match was replaced
C28_Witness ==
  /\ HasRun /\ ~trace.emergency
  /\ SingleWeakMatch
  /\ trace.fused # <<>>
  /\ "kb_match" \notin TypesOf(result)

\* a single diagnosis was doubled and returned once
C28_DuplicateWitness ==
  /\ HasRun /\ ~trace.emergency
  /\ SingleOtherAnswer
  /\ Len(trace.fused) = 2
  /\ Len(result) = 1
  /\ result[1] = Public(trace.before_fallback[1])

\* the last call fired no emergency and its most salient symptom is slow,
\* high_cpu or crashing
PerformanceCall ==
  HasRun /\ ~trace.emergency /\ MainSymptom \in {"slow", "high_cpu", "crashing"}

\* the answer a is about a peripheral, about a liquid spill or about
\* cleaning a keyboard
OffTopicForPerformance(a) ==
  \/ Get(a, "category", "") \in {"Peripheral", "Input Devices"}
  \/ Contains(lower(a.content), "liquid")
  \/ Contains(lower(a.content), "spill")
  \/ Contains(lower(a.content), "keyboard") /\ Contains(lower(a.content), "clean")

\* C29: when the most salient symptom is slow, high_cpu or crashing, the
\* result has no answer of category Peripheral or Input Devices, none that
\* mentions liquid or spill and none that mentions keyboard and clean
C29_PerformanceResultIsPruned ==
  PerformanceCall => \A i \in DOMAIN result : ~OffTopicForPerformance(result[i])

\* C29, amended: in such a call every answer of the pruned list is free of
\* these, and an answer of the result that is not is the need_more_info
\* answer, returned alone when nothing is left after pruning
C29_PrunedExceptClarification ==
  PerformanceCall =>
     /\ \A i \in DOMAIN trace.pruned : ~OffTopicForPerformance(trace.pruned[i])
     /\ \A i \in DOMAIN result :
          OffTopicForPerformance(result[i]) =>
             /\ result[i].type = "need_more_info"
             /\ Len(result) = 1
             /\ trace.unique = <<>>

\* an answer about a peripheral was among the fused answers of a performance
\* call, nothing was left after pruning, and the need_more_info answer, which
\* mentions a spill, was returned
C29_Witness ==
  /\ PerformanceCall
  /\ \E i \in DOMAIN trace.fused :
       /\ OffTopicForPerformance(trace.fused[i])
       /\ trace.fused[i].type = "kb_match"
  /\ trace.pruned = <<>>
  /\ Len(result) = 1
  /\ result[1].type = "need_more_info"
  /\ Contains(lower(result[1].content), "spill")

\* s without the punctuation ?.! and the whitespace at its ends
Trimmed(s) == strip(strip_chars(s, Punctuation))

\* the scored entries k for which the query or the question of the entry is
\* empty after trimming
EmptyPairs ==
  {k \in DOMAIN trace.scores :
     Trimmed(trace.q) = "" \/ Trimmed(ScoredQuestion(k)) = ""}

\* C30: when the query or the question of a well-formed entry is empty after
\* trimming, exact_or_quoted holds for the pair and the entry is a candidate
\* with confidence perfect and match_score 1.0
C30_EmptyTextMatchesEverything ==
  (HasRun /\ ~trace.emergency /\ Len(trace.kb_matches) = Cardinality(Candidates)) =>
     \A k \in EmptyPairs :
       /\ trace.scores[k].sc.exact_or_quoted
       /\ k \in Candidates
       /\ CandidateOf(k).confidence = "perfect"
       /\ CandidateOf(k).match_score = Scale

\* a query with words and an entry whose question is only punctuation share
\* no word, and the entry is a perfect candidate
C30_Witness ==
  /\ HasRun /\ ~trace.emergency
  /\ Trimmed(trace.q) # ""
  /\ \E k \in EmptyPairs :
       /\ WordSet(trace.q) \cap WordSet(ScoredQuestion(k)) = {}
       /\ CandidateOf(k).confidence = "perfect"
       /\ CandidateOf(k).match_score = Scale
       /\ \E i \in DOMAIN result :
            /\ result[i].type = "kb_match"
            /\ result[i].source_question = ScoredEntry(k).question

\* an empty query and an entry with words: the entry is a perfect candidate
C30_EmptyQueryWitness ==
  /\ HasRun /\ ~trace.emergency
  /\ Trimmed(trace.q) = ""
  /\ \E k \in EmptyPairs :
       /\ Trimmed(ScoredQuestion(k)) # ""
       /\ CandidateOf(k).confidence = "perfect"

====
